---- MODULE Spec2Model ----
(***************************************************************************)
(* Model of the asynchronous resource pool of ty-ras/extras                *)
(* (resource-pool: pool.ts, administration.ts, factory.ts).                *)
(*                                                                         *)
(* JavaScript runs the synchronous part of every handler to completion, so *)
(* every action below is one synchronous section: from the call (or the    *)
(* resumption after an await) to the next await or the return.             *)
(* Array indexes are the 0-based indexes of the code; At and SetAt map     *)
(* them to the 1-based sequences of TLA+.                                  *)
(***************************************************************************)
EXTENDS Integers, Sequences, FiniteSets, TLC

\* ------------------------------------------------------------------------
\* Bounds of the model
\* ------------------------------------------------------------------------
\* number of create() invocations explored; the resource made by the n-th
\* invocation is the value n, so created resources are pairwise distinct
MaxCreates == 4
\* largest value of Date.now() explored
MaxClock == 1
\* largest minCount / maxCount option explored
MaxMinCount == 1
MaxMaxCount == 3
\* number of runEviction calls that may be awaiting their destroy calls
MaxSweeps == 1
\* largest idle time in milliseconds given to runEviction
MaxIdleTime == 1
\* largest retryCount and waitBeforeRetryMs given to augmentWithRetry
MaxRetryCount == 2
MaxWaitMs == 1
MaxPoolRetryMaxCount == 2

\* ------------------------------------------------------------------------
\* Values
\* ------------------------------------------------------------------------
\* maxCount === undefined: the pool has no limit
NoMaxCount == -1
\* returnedAt === undefined: the resource is in use
NoTime == -1
\* no creation in flight for a create() invocation
NoIndex == -1

Tasks == 1 .. MaxCreates
\* values that a caller may pass to release: every resource that create can
\* make, and 0, a value that create never makes ("NotResource")
Values == 0 .. MaxCreates

\* The three kinds of ResourcePoolStateArrayItem, and the hole of a sparse
\* JavaScript array (an index below length that was never assigned).
Null == [kind |-> "null", resource |-> 0, returnedAt |-> NoTime]
Undefined == [kind |-> "undefined", resource |-> 0, returnedAt |-> NoTime]
Hole == [kind |-> "hole", resource |-> 0, returnedAt |-> NoTime]
Resource(r, t) == [kind |-> "resource", resource |-> r, returnedAt |-> t]

IsResource(s) == s.kind = "resource"
IsFree(s) == s.kind = "resource" /\ s.returnedAt # NoTime
IsBusy(s) == s.kind = "resource" /\ s.returnedAt = NoTime
IsReserved(s) == s.kind = "undefined"

VARIABLES
  resources,     \* poolState.resources
  minCount,      \* poolState.minCount
  maxCount,      \* poolState.maxCount
  clock,         \* Date.now()
  creating,      \* per create() invocation: currentIndex of its acquireAsync, or NoIndex
  settled,       \* per create() invocation: how the promise of its acquire settled
  createCalls,   \* number of create() invocations so far
  held,          \* per value: how many acquire results are in the hands of callers
  destroyCalls,  \* per value: how many times destroy was invoked on it
  sweeps,        \* runEviction calls awaiting their destroy calls
  construction,  \* how the call of createSimpleResourcePool ended
  handle,        \* retry: the ResourcePool returned by augmentWithRetry
  built,         \* retry: the RetryFunctionality arguments that built the handle
  frames,        \* retry: attemptCount of every acquireWithRetry call in progress
  phase,         \* retry: where the acquire call of the handle stands
  attempts,      \* retry: how the calls of the underlying acquire ended
  acquireCalled, \* retry: number of calls of the underlying acquire
  consulted,     \* retry: the arguments of every call of the retry function
  result,        \* retry: what the acquire call of the handle resolved or threw
  awaited,       \* retry: the create() invocation the attempt in progress awaits
  releasedInWait, \* retry: a resource was released since the loop began to wait
  biDi,          \* cache: made by createInMemoryBiDiAsyncCache
  maps,          \* cache: per direction, the Map from input to its entry
  lookups,       \* cache: the lookups issued so far
  main,          \* main: what the callback given to invokeMain does
  dontCallProcessExit, \* main: the second argument of invokeMain
  mainPhase,     \* main: where the call of invokeMain stands
  exitCode,      \* main: the variable exitCode of invokeMainAndGetInfo
  info,          \* main: what invokeMainAndGetInfo returned
  errorLog       \* main: the values given to console.error

retryVars == <<handle, built, frames, phase, attempts, acquireCalled, consulted,
              result, awaited, releasedInWait>>

cacheVars == <<biDi, maps, lookups>>

mainVars == <<main, dontCallProcessExit, mainPhase, exitCode, info, errorLog>>

poolVars == <<resources, minCount, maxCount, clock, creating, settled, createCalls,
             held, destroyCalls, sweeps>>

vars == <<resources, minCount, maxCount, clock, creating, settled, createCalls,
          held, destroyCalls, sweeps, construction, retryVars, cacheVars,
          mainVars>>

\* ------------------------------------------------------------------------
\* Array helpers (0-based)
\* ------------------------------------------------------------------------
Indexes(arr) == 0 .. (Len(arr) - 1)
At(arr, i) == arr[i + 1]

Min(S) == CHOOSE x \in S : \A y \in S : x <= y

\* arr[i] = v in JavaScript: an index at or beyond length grows the array and
\* leaves holes in between
SetAt(arr, i, v) ==
  IF i < Len(arr)
    THEN [arr EXCEPT ![i + 1] = v]
    ELSE [k \in 1 .. (i + 1) |->
            IF k <= Len(arr) THEN arr[k] ELSE IF k = i + 1 THEN v ELSE Hole]

\* poolState.equality, the default of the factory
equality(x, y) == x = y

\* ------------------------------------------------------------------------
\* pool.ts
\* ------------------------------------------------------------------------
Max(S) == CHOOSE x \in S : \A y \in S : x >= y

\* findIndexIdle searching from the end of the array (findLastIndex)
findIndexIdleLast(arr) ==
  LET S == {i \in Indexes(arr) : IsFree(At(arr, i))}
  IN IF S = {} THEN -1 ELSE Max(S)

\* Array.prototype.findIndex with (r) => r && r.returnedAt !== undefined:
\* the lowest index of an idle resource, or -1. (findIndex visits holes as
\* undefined, which the callback rejects.)
findIndexIdle(arr) ==
  LET S == {i \in Indexes(arr) : IsFree(At(arr, i))}
  IN IF S = {} THEN -1 ELSE Min(S)

\* Array.prototype.indexOf(null): strict equality, holes are skipped
indexOfNull(arr) ==
  LET S == {i \in Indexes(arr) : At(arr, i).kind = "null"}
  IN IF S = {} THEN -1 ELSE Min(S)

\* getCurrentResourceCount that counts null as well
getCurrentResourceCountLength(arr) ==
  Cardinality({i \in Indexes(arr) : At(arr, i).kind # "hole"})

\* reduce skips holes and counts every element that is not null
getCurrentResourceCount(arr) ==
  Cardinality({i \in Indexes(arr) : At(arr, i).kind \notin {"null", "hole"}})

\* isRoomForResource comparing with <= instead of <
isRoomForResourceOffByOne(max, arr) ==
  \/ max = NoMaxCount
  \/ Len(arr) <= max
  \/ getCurrentResourceCount(arr) <= max

isRoomForResource(max, arr) ==
  \/ max = NoMaxCount
  \/ Len(arr) < max
  \/ getCurrentResourceCount(arr) < max

\* the index at which createAcquire puts a new resource
thisIndexOf(arr) ==
  IF indexOfNull(arr) < 0 THEN Len(arr) ELSE indexOfNull(arr)

\* findBusy that does not look at returnedAt
findBusyOrIdle(arr, x) ==
  LET S == {i \in Indexes(arr) :
              IsResource(At(arr, i)) /\ equality(At(arr, i).resource, x)}
  IN IF S = {} THEN -1 ELSE Min(S)

\* the slot that createRelease finds: Array.prototype.find with
\* r && r.returnedAt === undefined && equality(r.resource, resource)
findBusy(arr, x) ==
  LET S == {i \in Indexes(arr) :
              IsBusy(At(arr, i)) /\ equality(At(arr, i).resource, x)}
  IN IF S = {} THEN -1 ELSE Min(S)

\* markAcquired that forgets to clear returnedAt
markAcquiredNot(arr, i) == arr

\* existing.returnedAt = undefined
markAcquired(arr, i) ==
  [arr EXCEPT ![i + 1] = Resource(arr[i + 1].resource, NoTime)]

\* resourceObject.returnedAt = Date.now()
markReturned(arr, i, now) ==
  [arr EXCEPT ![i + 1] = Resource(arr[i + 1].resource, now)]

\* what a call of the function returned by createAcquire does with the array
\* arr: "resolved" with an idle resource, the throw of ResourcePoolFullError,
\* or "pending" on create() with the slot index reserved
acquireResult(arr, max) ==
  LET existingIndex == findIndexIdle(arr) IN
  IF existingIndex >= 0
    THEN [outcome |-> "resolved", resource |-> At(arr, existingIndex).resource,
          index |-> existingIndex, resources |-> markAcquired(arr, existingIndex)]
    ELSE IF ~isRoomForResource(max, arr)
      THEN [outcome |-> "ResourcePoolFullError", resource |-> 0,
            index |-> NoIndex, resources |-> arr]
      ELSE [outcome |-> "pending", resource |-> 0,
            index |-> thisIndexOf(arr),
            resources |-> SetAt(arr, thisIndexOf(arr), Undefined)]

\* the function returned by createAcquire, up to its return or, when a
\* resource must be created, up to the await of create() in acquireAsync
Acquire ==
  LET r == acquireResult(resources, maxCount) IN
  /\ r.outcome = "pending" => createCalls < MaxCreates
  /\ resources' = r.resources
  /\ held' = IF r.outcome = "resolved"
               THEN [held EXCEPT ![r.resource] = @ + 1] ELSE held
  /\ createCalls' = IF r.outcome = "pending" THEN createCalls + 1 ELSE createCalls
  /\ creating' = IF r.outcome = "pending"
                   THEN [creating EXCEPT ![createCalls + 1] = r.index] ELSE creating
  /\ settled' = IF r.outcome = "pending"
                  THEN [settled EXCEPT ![createCalls + 1] = "pending"] ELSE settled
  /\ UNCHANGED <<minCount, maxCount, clock, destroyCalls, sweeps>>
  /\ UNCHANGED <<construction, retryVars, cacheVars, mainVars>>

\* acquireAsync after create() resolved with the resource t: the slot is
\* written and the promise of acquire resolves with t
CreateResolved(t) ==
  /\ creating[t] # NoIndex
  /\ resources' = SetAt(resources, creating[t], Resource(t, NoTime))
  /\ creating' = [creating EXCEPT ![t] = NoIndex]
  /\ settled' = [settled EXCEPT ![t] = "resolved"]
  /\ held' = [held EXCEPT ![t] = @ + 1]
  /\ UNCHANGED <<minCount, maxCount, clock, createCalls, destroyCalls, sweeps>>
  /\ UNCHANGED <<construction, retryVars, cacheVars, mainVars>>

\* CreateRejected that marks the first reserved slot of the array as failed
\* instead of the slot of its own currentIndex
CreateRejectedFirstReserved(t) ==
  /\ creating[t] # NoIndex
  /\ resources' = SetAt(resources,
                        Min({i \in Indexes(resources) : IsReserved(At(resources, i))}
                            \cup {creating[t]}),
                        Null)
  /\ creating' = [creating EXCEPT ![t] = NoIndex]
  /\ settled' = [settled EXCEPT ![t] = "rejected"]
  /\ UNCHANGED <<minCount, maxCount, clock, createCalls, destroyCalls, held, sweeps>>
  /\ UNCHANGED <<construction, retryVars, cacheVars, mainVars>>

\* acquireAsync after create() threw or rejected: the slot is written and the
\* promise of acquire rejects with the same error
CreateRejected(t) ==
  /\ creating[t] # NoIndex
  /\ resources' = SetAt(resources, creating[t], Null)
  /\ creating' = [creating EXCEPT ![t] = NoIndex]
  /\ settled' = [settled EXCEPT ![t] = "rejected"]
  /\ UNCHANGED <<minCount, maxCount, clock, createCalls, destroyCalls, held, sweeps>>
  /\ UNCHANGED <<construction, retryVars, cacheVars, mainVars>>

\* what a call of the function returned by createRelease does with the array
\* arr, the value x and the time now
releaseResult(arr, x, now) ==
  LET i == findBusy(arr, x) IN
  IF i < 0
    THEN [outcome |-> "ResourceNotPartOfPoolError", index |-> NoIndex, resources |-> arr]
    ELSE [outcome |-> "resolved", index |-> i, resources |-> markReturned(arr, i, now)]

\* what the function returned by createRelease, called with the value x,
\* does with the state of the pool
releaseCalled(x) ==
  LET r == releaseResult(resources, x, clock) IN
  /\ resources' = r.resources
  /\ held' = IF r.outcome = "resolved" /\ held[x] > 0
               THEN [held EXCEPT ![x] = @ - 1] ELSE held
  /\ UNCHANGED <<minCount, maxCount, clock, creating, settled, createCalls,
                 destroyCalls, sweeps>>

\* the function returned by createRelease, called with the value x
Release(x) ==
  /\ releaseCalled(x)
  /\ UNCHANGED <<construction, retryVars, cacheVars, mainVars>>

\* ------------------------------------------------------------------------
\* administration.ts
\* ------------------------------------------------------------------------
\* shouldEvict comparing the idle time with > instead of >=
shouldEvictStrict(policy, now, returnedAt, resource) ==
  IF policy.type = "number"
    THEN now - returnedAt > policy.ms
    ELSE resource \in policy.accept

\* resourceIdleTime: a number of milliseconds, or a callback; a callback is
\* modelled by the set of resources for which it answers true
IdleTime(ms) == [type |-> "number", ms |-> ms, accept |-> {}]
IdleCallback(S) == [type |-> "function", ms |-> 0, accept |-> S]
\* the arguments of runEviction explored for the array arr: every idle time,
\* and every answer that a callback can give for the idle resources of arr
\* (the callback is consulted on idle resources only)
Policies(arr) ==
  {IdleTime(ms) : ms \in 0 .. MaxIdleTime}
    \cup {IdleCallback(S) :
            S \in SUBSET {At(arr, i).resource : i \in {j \in Indexes(arr) : IsFree(At(arr, j))}}}

shouldEvict(policy, now, returnedAt, resource) ==
  IF policy.type = "number"
    THEN now - returnedAt >= policy.ms
    ELSE resource \in policy.accept

\* evictable without the positional floor of minCount
evictableAnywhere(r, idx, min, policy, now) ==
  /\ r.kind = "resource"
  /\ r.returnedAt # NoTime
  /\ shouldEvict(policy, now, r.returnedAt, r.resource)

\* evictable without the test of returnedAt: resources in use are evicted too
evictableInUse(r, idx, min, policy, now) ==
  /\ idx >= min
  /\ r.kind = "resource"
  /\ shouldEvict(policy, now, r.returnedAt, r.resource)

\* the condition of the first branch of the reduce callback
evictable(r, idx, min, policy, now) ==
  /\ idx >= min
  /\ r.kind = "resource"
  /\ r.returnedAt # NoTime
  /\ shouldEvict(policy, now, r.returnedAt, r.resource)

\* reachesShouldEvict without the positional floor of minCount
reachesShouldEvictAnywhere(r, idx, min) ==
  /\ r.kind = "resource"
  /\ r.returnedAt # NoTime

\* the conjuncts of the condition that stand before the call of shouldEvict:
\* && evaluates shouldEvict only when they all hold
reachesShouldEvict(r, idx, min) ==
  /\ idx >= min
  /\ r.kind = "resource"
  /\ r.returnedAt # NoTime

\* the arguments of the calls of shouldEvict that the reduce makes from the
\* index idx on, in the order of the calls
RECURSIVE shouldEvictInputs(_, _, _, _)
shouldEvictInputs(arr, idx, min, now) ==
  IF idx >= Len(arr)
    THEN <<>>
    ELSE LET r == At(arr, idx) IN
         (IF r.kind # "hole" /\ reachesShouldEvict(r, idx, min)
            THEN <<[now |-> now, returnedAt |-> r.returnedAt, resource |-> r.resource]>>
            ELSE <<>>)
           \o shouldEvictInputs(arr, idx + 1, min, now)

\* state.resources.reduce(...): holes are not visited
RECURSIVE evictReduce(_, _, _, _, _, _)
evictReduce(arr, idx, min, policy, now, reduceState) ==
  IF idx >= Len(arr)
    THEN reduceState
    ELSE LET r == At(arr, idx) IN
         evictReduce(arr, idx + 1, min, policy, now,
           IF r.kind = "hole"
             THEN reduceState
             ELSE IF evictable(r, idx, min, policy, now)
               THEN [reduceState EXCEPT !.toBeEvicted = Append(@, r.resource)]
               ELSE IF r.kind # "null"
                 THEN [reduceState EXCEPT !.toBeRetained = Append(@, r)]
                 ELSE reduceState)

partition(arr, min, policy, now) ==
  evictReduce(arr, 0, min, policy, now, [toBeEvicted |-> <<>>, toBeRetained |-> <<>>])

\* destroy(r) is invoked on every element of toBeEvicted
countDestroys(calls, evicted) ==
  [v \in Values |-> calls[v] + Cardinality({k \in 1 .. Len(evicted) : evicted[k] = v})]

\* RunEviction that leaves state.resources as it is until the destroy calls
\* have been awaited
RunEvictionLate(policy) ==
  LET p == partition(resources, minCount, policy, clock) IN
  /\ Len(sweeps) < MaxSweeps
  /\ destroyCalls' = countDestroys(destroyCalls, p.toBeEvicted)
  /\ sweeps' = Append(sweeps, [toBeEvicted |-> p.toBeEvicted,
                               pending |-> 1 .. Len(p.toBeEvicted),
                               errors |-> {}])
  /\ UNCHANGED <<resources, minCount, maxCount, clock, creating, settled,
                 createCalls, held>>
  /\ UNCHANGED <<construction, retryVars, cacheVars, mainVars>>

\* runEviction up to the await of Promise.all: the reduce, the replacement of
\* state.resources, and the invocation of destroy on every evicted resource
RunEviction(policy) ==
  LET p == partition(resources, minCount, policy, clock) IN
  /\ Len(sweeps) < MaxSweeps
  /\ resources' = p.toBeRetained
  /\ destroyCalls' = countDestroys(destroyCalls, p.toBeEvicted)
  /\ sweeps' = Append(sweeps, [toBeEvicted |-> p.toBeEvicted,
                               pending |-> 1 .. Len(p.toBeEvicted),
                               errors |-> {}])
  /\ UNCHANGED <<minCount, maxCount, clock, creating, settled, createCalls, held>>
  /\ UNCHANGED <<construction, retryVars, cacheVars, mainVars>>

\* DestroySettled without the try/catch around destroy: the first failure
\* rejects Promise.all and with it runEviction, whose result is lost
DestroySettledUncaught(s, k, ok) ==
  /\ s \in 1 .. Len(sweeps)
  /\ k \in sweeps[s].pending
  /\ sweeps' = IF ok
                 THEN [sweeps EXCEPT ![s].pending = @ \ {k}]
                 ELSE [j \in 1 .. (Len(sweeps) - 1) |->
                         IF j < s THEN sweeps[j] ELSE sweeps[j + 1]]
  /\ UNCHANGED <<resources, minCount, maxCount, clock, creating, settled,
                 createCalls, held, destroyCalls>>
  /\ UNCHANGED <<construction, retryVars, cacheVars, mainVars>>

\* one destroy call of the sweep s settles: resolved (ok) or thrown/rejected
DestroySettled(s, k, ok) ==
  /\ s \in 1 .. Len(sweeps)
  /\ k \in sweeps[s].pending
  /\ sweeps' = [sweeps EXCEPT ![s].pending = @ \ {k},
                              ![s].errors = IF ok THEN @ ELSE @ \cup {k}]
  /\ UNCHANGED <<resources, minCount, maxCount, clock, creating, settled,
                 createCalls, held, destroyCalls>>
  /\ UNCHANGED <<construction, retryVars, cacheVars, mainVars>>

\* evictionResult counting only the destroy calls that succeeded
evictionResultSucceeded(sweep) ==
  [resourcesDeleted |-> Len(sweep.toBeEvicted) - Cardinality(sweep.errors),
   errors |-> Cardinality(sweep.errors)]

\* the result object of runEviction: destroyResults.length and the errors
\* filtered out of destroyResults
evictionResult(sweep) ==
  [resourcesDeleted |-> Len(sweep.toBeEvicted),
   errors |-> Cardinality(sweep.errors)]

RemoveAt(seq, s) == [k \in 1 .. (Len(seq) - 1) |-> IF k < s THEN seq[k] ELSE seq[k + 1]]

\* runEviction after Promise.all: the result object is returned
EvictionReturn(s) ==
  /\ s \in 1 .. Len(sweeps)
  /\ sweeps[s].pending = {}
  /\ sweeps' = RemoveAt(sweeps, s)
  /\ UNCHANGED <<resources, minCount, maxCount, clock, creating, settled,
                 createCalls, held, destroyCalls>>
  /\ UNCHANGED <<construction, retryVars, cacheVars, mainVars>>

\* time passes: Date.now() grows
Tick ==
  /\ clock < MaxClock
  /\ clock' = clock + 1
  /\ UNCHANGED <<resources, minCount, maxCount, creating, settled, createCalls,
                 held, destroyCalls, sweeps>>
  /\ UNCHANGED <<construction, retryVars, cacheVars, mainVars>>

\* ------------------------------------------------------------------------
\* retry.ts
\* ------------------------------------------------------------------------
\* What acquire resolves with or throws, and what a retry function answers:
\* one record shape for resources, thrown values and RetryParameters.
Value(class, attemptCount, cause, waitBeforeRetryMs) ==
  [class |-> class, attemptCount |-> attemptCount, cause |-> cause,
   waitBeforeRetryMs |-> waitBeforeRetryMs]

\* the resource that the underlying acquire resolves with
RESOURCE == Value("resource", 0, "none", 0)
\* nothing resolved or thrown yet
NoResult == Value("none", 0, "none", 0)
ResourcePoolFullError == Value("ResourcePoolFullError", 0, "none", 0)
\* an Error other than ResourcePoolFullError, as a failing create callback throws
CreationError == Value("CreationError", 0, "none", 0)
\* a thrown value that is not an instance of Error
NotAnError == Value("NotAnError", 0, "none", 0)
NoMoreRetriesLeftError(attemptCount, error) ==
  Value("NoMoreRetriesLeftError", attemptCount, error.class, 0)
\* the Error that a retry function of the caller returns to stop retrying
PolicyError == Value("PolicyError", 0, "none", 0)
RetryParameters(waitBeforeRetryMs) == Value("RetryParameters", 0, "none", waitBeforeRetryMs)

\* common.toError: an Error as it is, anything else wrapped in a new Error
toError(maybeError) ==
  IF maybeError.class # "NotAnError"
    THEN maybeError
    ELSE Value("Error", 0, maybeError.class, 0)

\* RetryFunctionality: the static object, or a function of the caller. The
\* functions explored answer RetryParameters while the error is one of
\* retryOn and attemptCount <= retryCount, and PolicyError otherwise.
StaticRetryFunctionality(retryCount, waitBeforeRetryMs) ==
  [type |-> "static", retryCount |-> retryCount,
   waitBeforeRetryMs |-> waitBeforeRetryMs, retryOn |-> {}]
DynamicRetryFunctionality(retryOn, retryCount, waitBeforeRetryMs) ==
  [type |-> "function", retryCount |-> retryCount,
   waitBeforeRetryMs |-> waitBeforeRetryMs, retryOn |-> retryOn]
\* dynamicFromStatic answering undefined
NoRetryFunctionality ==
  [type |-> "undefined", retryCount |-> 0, waitBeforeRetryMs |-> 0, retryOn |-> {}]

StaticRetryFunctionalities ==
  {StaticRetryFunctionality(n, w) : n \in -1 .. MaxRetryCount, w \in 0 .. MaxWaitMs}
DynamicRetryFunctionalities ==
  {DynamicRetryFunctionality(on, n, w) :
     on \in {{"ResourcePoolFullError"},
             {"ResourcePoolFullError", "CreationError", "Error"}},
     n \in 0 .. MaxRetryCount, w \in 0 .. MaxWaitMs}
RetryFunctionalities == StaticRetryFunctionalities \cup DynamicRetryFunctionalities

\* dynamicFromStatic that keeps a retryCount of 0
dynamicFromStaticZero(static) ==
  LET retryCount == Max({static.retryCount, 0}) IN
  IF retryCount >= 0
    THEN [type |-> "fromStatic", retryCount |-> retryCount,
          waitBeforeRetryMs |-> static.waitBeforeRetryMs, retryOn |-> {}]
    ELSE NoRetryFunctionality

dynamicFromStatic(static) ==
  LET retryCount == Max({static.retryCount, 0}) IN
  IF retryCount > 0
    THEN [type |-> "fromStatic", retryCount |-> retryCount,
          waitBeforeRetryMs |-> static.waitBeforeRetryMs, retryOn |-> {}]
    ELSE NoRetryFunctionality

\* retryFunctionality with >= in place of >: one retry less
retryFunctionalityOneLess(f, error, attemptCount) ==
  IF f.type = "fromStatic"
    THEN IF error.class = "ResourcePoolFullError"
           THEN IF attemptCount >= f.retryCount
                  THEN NoMoreRetriesLeftError(attemptCount, error)
                  ELSE RetryParameters(f.waitBeforeRetryMs)
           ELSE error
    ELSE IF error.class \in f.retryOn /\ attemptCount <= f.retryCount
           THEN RetryParameters(f.waitBeforeRetryMs)
           ELSE PolicyError

\* retryFunctionality that gives up with the error it was given
retryFunctionalityBare(f, error, attemptCount) ==
  IF f.type = "fromStatic"
    THEN IF error.class = "ResourcePoolFullError"
           THEN IF attemptCount > f.retryCount
                  THEN error
                  ELSE RetryParameters(f.waitBeforeRetryMs)
           ELSE error
    ELSE IF error.class \in f.retryOn /\ attemptCount <= f.retryCount
           THEN RetryParameters(f.waitBeforeRetryMs)
           ELSE PolicyError

\* retryFunctionality that retries on every error
retryFunctionalityAnyError(f, error, attemptCount) ==
  IF f.type = "fromStatic"
    THEN IF attemptCount > f.retryCount
           THEN NoMoreRetriesLeftError(attemptCount, error)
           ELSE RetryParameters(f.waitBeforeRetryMs)
    ELSE IF error.class \in f.retryOn /\ attemptCount <= f.retryCount
           THEN RetryParameters(f.waitBeforeRetryMs)
           ELSE PolicyError

\* the call retryFunctionality({ error, attemptCount }) of acquireWithRetry:
\* the closure made by dynamicFromStatic, or the function of the caller
retryFunctionality(f, error, attemptCount) ==
  IF f.type = "fromStatic"
    THEN IF error.class = "ResourcePoolFullError"
           THEN IF attemptCount > f.retryCount
                  THEN NoMoreRetriesLeftError(attemptCount, error)
                  ELSE RetryParameters(f.waitBeforeRetryMs)
           ELSE error
    ELSE IF error.class \in f.retryOn /\ attemptCount <= f.retryCount
           THEN RetryParameters(f.waitBeforeRetryMs)
           ELSE PolicyError

\* A ResourcePool is modelled by its layers of PoolWithRetryFunctionality,
\* outermost first: the retry function of each layer. The pool that is not
\* an instance of PoolWithRetryFunctionality has no layer.
OriginalPool == <<>>

poolIsWithRetryFunctionality(pool) == pool # <<>>

\* getOriginalPool that does not unwrap
getOriginalPoolSame(pool) == pool

\* pool instanceof PoolWithRetryFunctionality ? pool.__originalPool : pool
getOriginalPool(pool) ==
  IF poolIsWithRetryFunctionality(pool) THEN Tail(pool) ELSE pool

augmentWithRetry(pool, retryFunctionalityArg) ==
  LET getRetryInfo == IF retryFunctionalityArg.type = "function"
                        THEN retryFunctionalityArg
                        ELSE dynamicFromStatic(retryFunctionalityArg)
  IN IF getRetryInfo.type # "undefined"
       THEN <<getRetryInfo>> \o getOriginalPool(pool)
       ELSE pool

\* the loop of acquireWithRetry starts a turn: ++attemptCount in the frame
\* that loops (the last of fr; none for the first call), and the acquire it
\* awaits starts every acquireWithRetry below it with attemptCount 1
enter(pool, fr) ==
  [i \in 1 .. Len(pool) |->
     IF i < Len(fr) THEN fr[i] ELSE IF i = Len(fr) THEN fr[i] + 1 ELSE 1]

\* deliver that throws the error of the attempt where the retry function
\* answered with an Error of its own
RECURSIVE deliverAttemptError(_, _, _, _)
deliverAttemptError(pool, fr, out, log) ==
  IF fr = <<>>
    THEN [frames |-> fr, consulted |-> log, result |-> out,
          phase |-> IF out.class = "resource" THEN "resolved" ELSE "rejected"]
    ELSE LET k == Len(fr) IN
         IF out.class = "resource"
           THEN deliverAttemptError(pool, SubSeq(fr, 1, k - 1), out, log)
           ELSE LET error == toError(out)
                    retryParams == retryFunctionality(pool[k], error, fr[k])
                    log2 == Append(log, [layer |-> k, error |-> error,
                                         attemptCount |-> fr[k]])
                IN IF retryParams.class # "RetryParameters"
                     THEN deliverAttemptError(pool, SubSeq(fr, 1, k - 1), error, log2)
                     ELSE [frames |-> fr, consulted |-> log2, result |-> NoResult,
                           phase |-> IF retryParams.waitBeforeRetryMs > 0
                                       THEN "waiting" ELSE "again"]

\* acquireWithRetry from the settling of the acquire it awaits to its next
\* await or its end. out is what the acquire resolved with or threw, fr the
\* attemptCount of the acquireWithRetry calls in progress, innermost last.
\* The innermost call catches out, consults its retry function and either
\* loops (phase "waiting" on the timer, or "again" at once) or ends, and
\* then its caller goes on in the same way with what it returned or threw.
RECURSIVE deliver(_, _, _, _)
deliver(pool, fr, out, log) ==
  IF fr = <<>>
    THEN [frames |-> fr, consulted |-> log, result |-> out,
          phase |-> IF out.class = "resource" THEN "resolved" ELSE "rejected"]
    ELSE LET k == Len(fr) IN
         IF out.class = "resource"
           THEN deliver(pool, SubSeq(fr, 1, k - 1), out, log)
           ELSE LET error == toError(out)
                    retryParams == retryFunctionality(pool[k], error, fr[k])
                    log2 == Append(log, [layer |-> k, error |-> error,
                                         attemptCount |-> fr[k]])
                IN IF retryParams.class # "RetryParameters"
                     THEN deliver(pool, SubSeq(fr, 1, k - 1), retryParams, log2)
                     ELSE [frames |-> fr, consulted |-> log2, result |-> NoResult,
                           phase |-> IF retryParams.waitBeforeRetryMs > 0
                                       THEN "waiting" ELSE "again"]

\* what the acquire of the underlying pool may do: resolve, or fail with a
\* thrown value, synchronously or as a rejection
Outcomes == {RESOURCE, ResourcePoolFullError, CreationError, NotAnError}
Modes == {"thrown", "rejected"}

\* handle.acquire() is called: every layer of the handle starts its loop
\* and the acquire of the underlying pool is called
AcquireCalled ==
  /\ phase = "ready"
  /\ frames' = enter(handle, <<>>)
  /\ acquireCalled' = acquireCalled + 1
  /\ phase' = "acquiring"
  /\ UNCHANGED <<handle, built, attempts, consulted, result>>
  /\ UNCHANGED <<resources, minCount, maxCount, clock, creating, settled,
                 createCalls, held, destroyCalls, sweeps, construction>>
  /\ UNCHANGED <<awaited, releasedInWait, cacheVars, mainVars>>

\* the acquire of the underlying pool resolved or failed with out; a retry
\* without waiting calls it again at once
AcquireSettled(out, mode) ==
  LET d == deliver(handle, frames, out, consulted) IN
  /\ phase = "acquiring"
  /\ out.class = "resource" => mode = "rejected"
  /\ attempts' = Append(attempts, [out |-> out, mode |-> mode])
  /\ consulted' = d.consulted
  /\ result' = d.result
  /\ frames' = IF d.phase = "again" THEN enter(handle, d.frames) ELSE d.frames
  /\ phase' = IF d.phase = "again" THEN "acquiring" ELSE d.phase
  /\ acquireCalled' = IF d.phase = "again" THEN acquireCalled + 1 ELSE acquireCalled
  /\ UNCHANGED <<handle, built>>
  /\ UNCHANGED <<resources, minCount, maxCount, clock, creating, settled,
                 createCalls, held, destroyCalls, sweeps, construction>>
  /\ UNCHANGED <<awaited, releasedInWait, cacheVars, mainVars>>

\* the timer of waitBeforeRetryMs fired: the loop calls acquire again
TimerFired ==
  /\ phase = "waiting"
  /\ frames' = enter(handle, frames)
  /\ acquireCalled' = acquireCalled + 1
  /\ phase' = "acquiring"
  /\ UNCHANGED <<handle, built, attempts, consulted, result>>
  /\ UNCHANGED <<resources, minCount, maxCount, clock, creating, settled,
                 createCalls, held, destroyCalls, sweeps, construction>>
  /\ UNCHANGED <<awaited, releasedInWait, cacheVars, mainVars>>

\* the ways in which the handle is built: the pool itself,
\* augmentWithRetry(pool, B), or augmentWithRetry(augmentWithRetry(pool, A), B)
\* with a static A
Builds ==
  {<<>>} \cup {<<b>> : b \in RetryFunctionalities}
    \cup {<<a, b>> : a \in StaticRetryFunctionalities, b \in RetryFunctionalities}

RECURSIVE augmentAll(_, _)
augmentAll(pool, args) ==
  IF args = <<>> THEN pool
  ELSE augmentAll(augmentWithRetry(pool, Head(args)), Tail(args))

\* ------------------------------------------------------------------------
\* map.ts
\* ------------------------------------------------------------------------
MaxStrings == 2
MaxLookups == 3
MaxBiDiLookups == 2

\* the strings given to the caches and returned by their callbacks
Strings == 1 .. MaxStrings
\* the lookups, in the order in which they are issued
Lookups == 1 .. Max({MaxLookups, MaxBiDiLookups})
NoString == 0

\* the two maps of createInMemoryBiDiAsyncCache; createInMemoryAsyncCache
\* has the first one only
keyToValue == "keyToValue"
valueToKey == "valueToKey"
Directions == {keyToValue, valueToKey}
inverse(dir) == IF dir = keyToValue THEN valueToKey ELSE keyToValue

\* CacheableValue (startedAt and completedAt are written and never read:
\* they are left out); onCompletion is the notify list of an entry in
\* progress, named by the lookup that created it
succeeded == "succeeded"
errored == "errored"
inProgress == "inProgress"
CacheableValue(kind, res, error, onCompletion) ==
  [kind |-> kind, result |-> res, error |-> error, onCompletion |-> onCompletion]
\* Map.get answering undefined
NoEntry == CacheableValue("undefined", NoString, NoResult, 0)
CacheableValueSucceeded(res) == CacheableValue(succeeded, res, NoResult, 0)
CacheableValueErrored(error) == CacheableValue(errored, NoString, error, 0)
CacheableValueInProgress(id) == CacheableValue(inProgress, NoString, NoResult, id)
EmptyMap == [input \in Strings |-> NoEntry]

\* how a promise stands: pending, resolved with a string, rejected with a value
Outcome(kind, res, error) == [kind |-> kind, result |-> res, error |-> error]
Pending == Outcome("pending", NoString, NoResult)
Resolved(res) == Outcome("resolved", res, NoResult)
Rejected(error) == Outcome("rejected", NoString, error)

\* an Error thrown by the callback of the cache
CallbackError == Value("CallbackError", 0, "none", 0)
\* what the callback of the cache may do
Thrown == {Rejected(CallbackError), Rejected(NotAnError)}
CallbackOutcomes == {Resolved(s) : s \in Strings} \cup Thrown

\* the error kept in the errored entry: new Error(`Error: ${catchedError}.`)
\* for a value that is not an Error
cachedErrorRaw(catchedError) == catchedError
cachedError(catchedError) ==
  IF catchedError.class # "NotAnError"
    THEN catchedError
    ELSE Value("Error", 0, "NotAnError.", 0)

\* the completed entry that wrapGetValue builds in its try and catch blocks
completedOf(out) ==
  IF out.kind = "resolved"
    THEN CacheableValueSucceeded(out.result)
    ELSE CacheableValueErrored(cachedError(out.error))

\* the callback given to addNotify by cachePromise: what the joined promise
\* settles with
notified(value) ==
  IF value.kind = errored THEN Rejected(value.error) ELSE Resolved(value.result)

\* the in-progress lookups of (dir, input) that invoked the callback
Fetching(dir, input) ==
  {f \in 1 .. Len(lookups) :
     /\ lookups[f].on = f
     /\ lookups[f].stage = "awaiting"
     /\ lookups[f].dir = dir
     /\ lookups[f].input = input}

\* One lookup. on: the lookup whose invocation of the callback this one
\* awaits (itself when it invoked the callback, 0 when the entry was
\* complete); fetched: what its own invocation of the callback did. The
\* last three fields serve the properties only: the invocations in progress
\* for the same input when the lookup was issued, and whether the input was
\* invalidated while the lookup was awaiting, or after it settled.
Call(dir, input, on, stage, outcome, fetched) ==
  [dir |-> dir, input |-> input, on |-> on, stage |-> stage,
   outcome |-> outcome, fetched |-> fetched,
   during |-> Fetching(dir, input),
   invalidatedDuring |-> FALSE, invalidatedAfter |-> FALSE]

\* the function returned by cachePromise, with wrapGetValue up to its await
\* (sync: the callback threw before returning a promise, so that the catch
\* and finally blocks of wrapGetValue run in the same turn)
cachePromiseAlways(existing) == NoEntry
cachePromiseFound(existing) == existing
cachePromise(dir, input, sync) ==
  LET existing == cachePromiseFound(maps[dir][input])
      c == Len(lookups) + 1
  IN
  /\ Len(lookups) < (IF biDi THEN MaxBiDiLookups ELSE MaxLookups)
  /\ biDi \/ dir = keyToValue
  /\ existing.kind # "undefined" => sync = Pending
  /\ CASE existing.kind = succeeded ->
            /\ lookups' = Append(lookups, Call(dir, input, 0, "settled",
                                           Resolved(existing.result), Pending))
            /\ UNCHANGED maps
       [] existing.kind = inProgress ->
            /\ lookups' = Append(lookups, Call(dir, input, existing.onCompletion,
                                           "awaiting", Pending, Pending))
            /\ UNCHANGED maps
       [] existing.kind = errored ->
            /\ lookups' = Append(lookups, Call(dir, input, 0, "settled",
                                           Rejected(existing.error), Pending))
            /\ UNCHANGED maps
       [] OTHER ->
            IF sync = Pending
              THEN /\ maps' = [maps EXCEPT ![dir][input] = CacheableValueInProgress(c)]
                   /\ lookups' = Append(lookups, Call(dir, input, c, "awaiting",
                                                  Pending, Pending))
              ELSE /\ maps' = [maps EXCEPT ![dir][input] = completedOf(sync)]
                   /\ lookups' = Append(lookups, Call(dir, input, c, "settled",
                                                  sync, sync))
  /\ UNCHANGED <<biDi, poolVars, construction, retryVars, mainVars>>

\* wrapGetValue after its await: the promise of the callback settled with
\* out. The entry is replaced when the map holds an entry in progress for
\* the input, the listeners are notified, and the promise of the lookup
\* that invoked the callback settles with what the callback gave.
stillInProgressAlways(currentlyExisting) == TRUE
stillInProgress(currentlyExisting) == currentlyExisting.kind = inProgress
startedOutcomeNotified(out) == notified(completedOf(out))
startedOutcome(out) == out
wrapGetValue(c, out) ==
  LET completed == completedOf(out)
      dir == lookups[c].dir
      input == lookups[c].input
  IN
  /\ c \in 1 .. Len(lookups)
  /\ lookups[c].on = c
  /\ lookups[c].stage = "awaiting"
  /\ maps' = IF stillInProgress(maps[dir][input])
               THEN [maps EXCEPT ![dir][input] = completed]
               ELSE maps
  /\ lookups' = [i \in 1 .. Len(lookups) |->
                 IF lookups[i].on = c /\ lookups[i].stage = "awaiting"
                   THEN [lookups[i] EXCEPT
                           !.stage = "settled",
                           !.outcome = IF i = c THEN startedOutcome(out)
                                                ELSE notified(completed),
                           !.fetched = IF i = c THEN out ELSE @]
                   ELSE lookups[i]]
  /\ UNCHANGED <<biDi, poolVars, construction, retryVars, mainVars>>

\* registerToInverseMap after its await, for the lookup c of a
\* bi-directional cache whose promise settled
registerAlways(thisHas, reverseHas) == TRUE
registerCondition(thisHas, reverseHas) == thisHas /\ ~reverseHas
registerToInverseMap(c) ==
  LET dir == lookups[c].dir
      input == lookups[c].input
      retVal == lookups[c].outcome.result
  IN
  /\ biDi
  /\ c \in 1 .. Len(lookups)
  /\ lookups[c].stage = "settled"
  /\ lookups' = [lookups EXCEPT ![c].stage = "returned"]
  /\ maps' = IF /\ lookups[c].outcome.kind = "resolved"
                /\ registerCondition(maps[dir][input].kind # "undefined",
                                     maps[inverse(dir)][retVal].kind # "undefined")
               THEN [maps EXCEPT ![inverse(dir)][retVal] =
                                    CacheableValueSucceeded(input)]
               ELSE maps
  /\ UNCHANGED <<biDi, poolVars, construction, retryVars, mainVars>>

\* the lookups told that their input was invalidated
Invalidated(cs, dir, inputs) ==
  [i \in 1 .. Len(cs) |->
     IF cs[i].dir = dir /\ cs[i].input \in inputs
       THEN IF cs[i].stage = "awaiting"
              THEN [cs[i] EXCEPT !.invalidatedDuring = TRUE]
              ELSE [cs[i] EXCEPT !.invalidatedAfter = TRUE]
       ELSE cs[i]]

\* admin.invalidate of createInMemoryAsyncCache: cache.delete(info)
deleteNothing(map, input) == map
delete(map, input) == [map EXCEPT ![input] = NoEntry]
invalidate(input) ==
  /\ ~biDi
  /\ maps' = [maps EXCEPT ![keyToValue] = delete(@, input)]
  /\ lookups' = Invalidated(lookups, keyToValue, {input})
  /\ UNCHANGED <<biDi, poolVars, construction, retryVars, mainVars>>

\* admin.invalidate of createInMemoryBiDiAsyncCache, by key (dir =
\* keyToValue) or by value (dir = valueToKey)
otherDeletedNever(existingOther) == FALSE
otherDeleted(existingOther) == existingOther.kind = succeeded
invalidateBiDi(dir, str) ==
  LET existingOther == maps[dir][str]
      other == IF otherDeleted(existingOther) THEN {existingOther.result} ELSE {}
  IN
  /\ biDi
  /\ maps' = [d \in Directions |->
                IF d = dir
                  THEN delete(maps[d], str)
                  ELSE [input \in Strings |->
                          IF input \in other THEN NoEntry ELSE maps[d][input]]]
  /\ lookups' = Invalidated(Invalidated(lookups, dir, {str}), inverse(dir), other)
  /\ UNCHANGED <<biDi, poolVars, construction, retryVars, mainVars>>

\* admin.clear of both caches
clearedMapKept(map) == map
clearedMap(map) == EmptyMap
clear ==
  /\ maps' = [d \in Directions |-> clearedMap(maps[d])]
  /\ lookups' = Invalidated(Invalidated(lookups, keyToValue, Strings), valueToKey, Strings)
  /\ UNCHANGED <<biDi, poolVars, construction, retryVars, mainVars>>

\* no cache in use
NoCache ==
  /\ biDi = FALSE
  /\ maps = [d \in Directions |-> EmptyMap]
  /\ lookups = <<>>

\* ------------------------------------------------------------------------
\* main.ts
\* ------------------------------------------------------------------------
\* What the callback main does when it is called: it returns a promise that
\* resolves with a value or rejects with a thrown value, or it throws
\* before returning a promise.
MainCallback(does, value, error) == [does |-> does, value |-> value, error |-> error]
NoMainCallback == MainCallback("nothing", 0, NoResult)
MainErrors == {CallbackError, ResourcePoolFullError, NotAnError}
MainCallbacks ==
  {MainCallback("resolves", v, NoResult) : v \in Values}
    \cup {MainCallback(does, 0, e) : does \in {"rejects", "throws"}, e \in MainErrors}

\* the optional boolean parameter dontCallProcessExit
DontCallProcessExit == {"undefined", "false", "true"}

\* not returned yet
NoInfo == [callProcessExit |-> FALSE, exitCode |-> -1]

\* the object returned by invokeMainAndGetInfo
callProcessExitNever(dontCall, code) == FALSE
callProcessExit(dontCall, code) == dontCall # "true" \/ code # 0
mainInfo(dontCall, code) ==
  [callProcessExit |-> callProcessExit(dontCall, code), exitCode |-> code]

\* invokeMain calls invokeMainAndGetInfo, which calls main inside its try
\* block: a main that throws is caught at once, logged, and the info is
\* returned with the exitCode the function started with
invokeMainAndGetInfo ==
  /\ mainPhase = "ready"
  /\ main # NoMainCallback
  /\ exitCode' = 1
  /\ IF main.does = "throws"
       THEN /\ errorLog' = Append(errorLog, main.error)
            /\ info' = mainInfo(dontCallProcessExit, 1)
            /\ mainPhase' = "info"
       ELSE /\ mainPhase' = "awaiting"
            /\ UNCHANGED <<errorLog, info>>
  /\ UNCHANGED <<main, dontCallProcessExit>>
  /\ UNCHANGED <<poolVars, construction, retryVars, cacheVars>>

\* the promise of main settled: exitCode = 0 after the await, or the catch
\* block logs the rejection; then the info is returned
exitCodeAfterAwaitOne(code) == 1
exitCodeAfterAwait(code) == 0
mainSettled ==
  /\ mainPhase = "awaiting"
  /\ IF main.does = "resolves"
       THEN /\ exitCode' = exitCodeAfterAwait(exitCode)
            /\ UNCHANGED errorLog
       ELSE /\ errorLog' = Append(errorLog, main.error)
            /\ UNCHANGED exitCode
  /\ info' = mainInfo(dontCallProcessExit, exitCode')
  /\ mainPhase' = "info"
  /\ UNCHANGED <<main, dontCallProcessExit>>
  /\ UNCHANGED <<poolVars, construction, retryVars, cacheVars>>

\* invokeMain after its await: process.exit(exitCode), or return exitCode
invokeMain ==
  /\ mainPhase = "info"
  /\ mainPhase' = IF info.callProcessExit THEN "exited" ELSE "returned"
  /\ UNCHANGED <<main, dontCallProcessExit, exitCode, info, errorLog>>
  /\ UNCHANGED <<poolVars, construction, retryVars, cacheVars>>

\* no main callback given to invokeMain
NoMain ==
  /\ main = NoMainCallback
  /\ dontCallProcessExit = "undefined"
  /\ mainPhase = "ready"
  /\ exitCode = 1
  /\ info = NoInfo
  /\ errorLog = <<>>

\* ------------------------------------------------------------------------
\* factory.ts
\* ------------------------------------------------------------------------
\* opts.minCount omitted
NoMinCount == -1

\* Object.assign({}, defaultOptions, opts): minCount is 0 unless given
defaultOptions(min) == IF min = NoMinCount THEN 0 ELSE min

\* _createResourcePool with no check of the options
validOptionsAny(min, max) == TRUE

\* the options that _createResourcePool accepts
validOptions(min, max) == ~(max # NoMaxCount /\ max < min)

\* no pool handle under retry, no acquire of it in progress
NoRetry ==
  /\ handle = OriginalPool
  /\ built = <<>>
  /\ frames = <<>>
  /\ phase = "ready"
  /\ attempts = <<>>
  /\ acquireCalled = 0
  /\ consulted = <<>>
  /\ result = NoResult
  /\ awaited = 0
  /\ releasedInWait = FALSE

\* the state right after createSimpleResourcePool returned
Init ==
  /\ resources = <<>>
  /\ minCount \in 0 .. MaxMinCount
  /\ maxCount \in {NoMaxCount} \cup (0 .. MaxMaxCount)
  /\ validOptions(minCount, maxCount)
  /\ clock = 0
  /\ creating = [t \in Tasks |-> NoIndex]
  /\ settled = [t \in Tasks |-> "none"]
  /\ createCalls = 0
  /\ held = [v \in Values |-> 0]
  /\ destroyCalls = [v \in Values |-> 0]
  /\ sweeps = <<>>
  /\ construction = "pool"
  /\ NoRetry
  /\ NoCache
  /\ NoMain

Next ==
  \/ Acquire
  \/ \E t \in Tasks : CreateResolved(t)
  \/ \E t \in Tasks : CreateRejected(t)
  \/ \E x \in Values : Release(x)
  \/ \E policy \in Policies(resources) : RunEviction(policy)
  \/ \E s \in 1 .. MaxSweeps, k \in Tasks, ok \in BOOLEAN : DestroySettled(s, k, ok)
  \/ \E s \in 1 .. MaxSweeps : EvictionReturn(s)
  \/ Tick

Spec == Init /\ [][Next]_vars

\* the pool with no eviction sweep ever run
NextNoEviction ==
  \/ Acquire
  \/ \E t \in Tasks : CreateResolved(t)
  \/ \E t \in Tasks : CreateRejected(t)
  \/ \E x \in Values : Release(x)
  \/ Tick

SpecNoEviction == Init /\ [][NextNoEviction]_vars

\* The call of createSimpleResourcePool. Before it, minCount and maxCount
\* are the properties of opts (NoMinCount, NoMaxCount: omitted); it throws,
\* or it returns the pool whose state has them with the default applied.
createSimpleResourcePool ==
  /\ construction = "none"
  /\ minCount' = defaultOptions(minCount)
  /\ construction' = IF validOptions(defaultOptions(minCount), maxCount)
                       THEN "pool" ELSE "Error"
  /\ UNCHANGED <<resources, maxCount, clock, creating, settled, createCalls,
                 held, destroyCalls, sweeps, retryVars, cacheVars, mainVars>>

\* the options given to createSimpleResourcePool, before the call
InitFactory ==
  /\ resources = <<>>
  /\ minCount \in {NoMinCount} \cup (0 .. MaxMinCount)
  /\ maxCount \in {NoMaxCount} \cup (0 .. MaxMaxCount)
  /\ clock = 0
  /\ creating = [t \in Tasks |-> NoIndex]
  /\ settled = [t \in Tasks |-> "none"]
  /\ createCalls = 0
  /\ held = [v \in Values |-> 0]
  /\ destroyCalls = [v \in Values |-> 0]
  /\ sweeps = <<>>
  /\ construction = "none"
  /\ NoRetry
  /\ NoCache
  /\ NoMain

\* the pool and its administration exist once the factory has returned them
NextFactory ==
  \/ createSimpleResourcePool
  \/ construction = "pool" /\ NextNoEviction

SpecFactory == InitFactory /\ [][NextFactory]_vars

\* no operation of the pool is in progress
Quiescent ==
  /\ \A t \in Tasks : creating[t] = NoIndex
  /\ sweeps = <<>>

\* the pool used by one caller that awaits every call before the next one
NextSequential ==
  \/ Quiescent /\ Acquire
  \/ \E t \in Tasks : CreateResolved(t)
  \/ \E t \in Tasks : CreateRejected(t)
  \/ \E x \in Values : Quiescent /\ Release(x)
  \/ \E policy \in Policies(resources) : Quiescent /\ RunEviction(policy)
  \/ \E s \in 1 .. MaxSweeps, k \in Tasks, ok \in BOOLEAN : DestroySettled(s, k, ok)
  \/ \E s \in 1 .. MaxSweeps : EvictionReturn(s)
  \/ Tick

SpecSequential == Init /\ [][NextSequential]_vars

\* a handle built by augmentWithRetry over a pool whose acquire is a stub
\* (any pool: the decorator knows only its acquire and release)
InitRetry ==
  /\ resources = <<>>
  /\ minCount = 0
  /\ maxCount = NoMaxCount
  /\ clock = 0
  /\ creating = [t \in Tasks |-> NoIndex]
  /\ settled = [t \in Tasks |-> "none"]
  /\ createCalls = 0
  /\ held = [v \in Values |-> 0]
  /\ destroyCalls = [v \in Values |-> 0]
  /\ sweeps = <<>>
  /\ construction = "pool"
  /\ built \in Builds
  /\ handle = augmentAll(OriginalPool, built)
  /\ frames = <<>>
  /\ phase = "ready"
  /\ attempts = <<>>
  /\ acquireCalled = 0
  /\ consulted = <<>>
  /\ result = NoResult
  /\ awaited = 0
  /\ releasedInWait = FALSE
  /\ NoCache
  /\ NoMain

NextRetry ==
  \/ AcquireCalled
  \/ \E out \in Outcomes, mode \in Modes : AcquireSettled(out, mode)
  \/ TimerFired

SpecRetry == InitRetry /\ [][NextRetry]_vars

\* no resource pool made
NoPool ==
  /\ resources = <<>>
  /\ minCount = 0
  /\ maxCount = NoMaxCount
  /\ clock = 0
  /\ creating = [t \in Tasks |-> NoIndex]
  /\ settled = [t \in Tasks |-> "none"]
  /\ createCalls = 0
  /\ held = [v \in Values |-> 0]
  /\ destroyCalls = [v \in Values |-> 0]
  /\ sweeps = <<>>
  /\ construction = "none"

\* the cache right after createInMemoryAsyncCache returned it
InitCache ==
  /\ NoPool
  /\ NoRetry
  /\ NoMain
  /\ biDi = FALSE
  /\ maps = [d \in Directions |-> EmptyMap]
  /\ lookups = <<>>

NextCache ==
  \/ \E input \in Strings, sync \in {Pending} \cup Thrown :
       cachePromise(keyToValue, input, sync)
  \/ \E c \in Lookups, out \in CallbackOutcomes : wrapGetValue(c, out)
  \/ \E input \in Strings : invalidate(input)
  \/ clear

SpecCache == InitCache /\ [][NextCache]_vars

\* the cache right after createInMemoryBiDiAsyncCache returned it
InitBiDiCache ==
  /\ NoPool
  /\ NoRetry
  /\ NoMain
  /\ biDi = TRUE
  /\ maps = [d \in Directions |-> EmptyMap]
  /\ lookups = <<>>

NextBiDiCache ==
  \/ \E dir \in Directions, input \in Strings, sync \in {Pending} \cup Thrown :
       cachePromise(dir, input, sync)
  \/ \E c \in Lookups, out \in CallbackOutcomes : wrapGetValue(c, out)
  \/ \E c \in Lookups : registerToInverseMap(c)
  \/ \E dir \in Directions, str \in Strings : invalidateBiDi(dir, str)
  \/ clear

SpecBiDiCache == InitBiDiCache /\ [][NextBiDiCache]_vars

\* one call of invokeMain
InitMain ==
  /\ NoPool
  /\ NoRetry
  /\ NoCache
  /\ main \in MainCallbacks
  /\ dontCallProcessExit \in DontCallProcessExit
  /\ mainPhase = "ready"
  /\ exitCode = 1
  /\ info = NoInfo
  /\ errorLog = <<>>

NextMain ==
  \/ invokeMainAndGetInfo
  \/ mainSettled
  \/ invokeMain

SpecMain == InitMain /\ [][NextMain]_vars

\* ------------------------------------------------------------------------
\* Vocabulary of the properties (the slot states of the specification)
\* ------------------------------------------------------------------------
FreeSlots(arr) == {i \in Indexes(arr) : IsFree(At(arr, i))}
BusySlots(arr) == {i \in Indexes(arr) : IsBusy(At(arr, i))}
ReservedSlots(arr) == {i \in Indexes(arr) : IsReserved(At(arr, i))}
EmptySlots(arr) == {i \in Indexes(arr) : At(arr, i).kind = "null"}
\* the slots holding the value v
SlotsOf(arr, v) == {i \in Indexes(arr) : IsResource(At(arr, i)) /\ At(arr, i).resource = v}
\* Occupied-Free + Occupied-Busy + Reserved
OccupiedOrReserved(arr) ==
  Cardinality(FreeSlots(arr)) + Cardinality(BusySlots(arr)) + Cardinality(ReservedSlots(arr))
InFlight == {t \in Tasks : creating[t] # NoIndex}

\* ------------------------------------------------------------------------
\* C1. Mutual exclusion of checked-out resources: no value is in the hands
\* of two acquire calls at once; and when an acquire takes the only idle
\* slot, that slot is busy afterwards, so that a second acquire does not get
\* its resource: it fails with ResourcePoolFullError or reserves another index.
\* ------------------------------------------------------------------------
C1_NoDoubleHold == \A v \in Values : held[v] <= 1

C1_RaceStep ==
  \A i \in Indexes(resources) :
    (Acquire /\ FreeSlots(resources) = {i}) =>
      /\ held'[At(resources, i).resource] = 1
      /\ IsBusy(At(resources', i))
      /\ LET other == acquireResult(resources', maxCount) IN
           \/ other.outcome = "ResourcePoolFullError"
           \/ other.outcome = "pending" /\ other.index # i

C1_MutualExclusion == [] C1_NoDoubleHold /\ [][C1_RaceStep]_vars

\* a caller holds a resource in a busy slot while the acquire of another
\* caller is creating a resource at a different, reserved index
C1_Witness ==
  \E v \in Tasks, t \in InFlight :
    /\ held[v] = 1
    /\ \E i \in BusySlots(resources) :
         At(resources, i).resource = v /\ creating[t] # i
    /\ creating[t] \in ReservedSlots(resources)

\* ------------------------------------------------------------------------
\* C2. Creation-failure isolation (no eviction sweep running): every acquire
\* that awaits create() has a reserved slot of its own; when one creation
\* fails, only its own slot changes and the others stay in flight; when a
\* creation succeeds, its resource goes to its own slot and to its caller.
\* With two acquires on an empty pool, the first creation failed and the
\* second succeeded: the pool holds exactly one resource, the second one,
\* and releasing and acquiring it again returns it without a call of create.
\* ------------------------------------------------------------------------
C2_OwnSlots ==
  /\ \A t \in InFlight : creating[t] \in ReservedSlots(resources)
  /\ \A t, u \in InFlight : t # u => creating[t] # creating[u]
  /\ \A t \in Tasks : settled[t] = "resolved" =>
       /\ Cardinality(SlotsOf(resources, t)) = 1
       /\ held[t] = 1 <=> SlotsOf(resources, t) \subseteq BusySlots(resources)

C2_Scenario ==
  (createCalls = 2 /\ settled[1] = "rejected" /\ settled[2] = "resolved") =>
    /\ Cardinality(FreeSlots(resources)) + Cardinality(BusySlots(resources)) = 1
    /\ Cardinality(SlotsOf(resources, 2)) = 1
    /\ held[2] = 1 =>
         LET released == releaseResult(resources, 2, clock) IN
         /\ released.outcome = "resolved"
         /\ acquireResult(released.resources, maxCount).outcome = "resolved"
         /\ acquireResult(released.resources, maxCount).resource = 2

C2_FailureStep ==
  \A t \in Tasks :
    CreateRejected(t) =>
      /\ \A i \in Indexes(resources) : i # creating[t] => At(resources', i) = At(resources, i)
      /\ At(resources', creating[t]) = Null
      /\ Len(resources') = Len(resources)
      /\ \A u \in InFlight \ {t} :
           creating'[u] = creating[u] /\ IsReserved(At(resources', creating[u]))

C2_SuccessStep ==
  \A t \in Tasks :
    CreateResolved(t) =>
      /\ \A i \in Indexes(resources) : i # creating[t] => At(resources', i) = At(resources, i)
      /\ At(resources', creating[t]) = Resource(t, NoTime)
      /\ Len(resources') = Len(resources)
      /\ held'[t] = 1

C2_FailureIsolation ==
  /\ [] (C2_OwnSlots /\ C2_Scenario)
  /\ [][C2_FailureStep /\ C2_SuccessStep]_vars

\* the first creation failed while the second was in flight, and the second
\* then succeeded: its resource is held and sits in slot 1, next to the
\* slot 0 that the failure left empty
C2_Witness ==
  /\ createCalls = 2
  /\ settled[1] = "rejected"
  /\ settled[2] = "resolved"
  /\ held[2] = 1
  /\ Len(resources) = 2
  /\ At(resources, 0) = Null
  /\ At(resources, 1) = Resource(2, NoTime)

\* ------------------------------------------------------------------------
\* C3. Capacity invariant: when maxCount is set, the number of Occupied-Free,
\* Occupied-Busy and Reserved slots is at most maxCount in every reachable
\* state.
\* ------------------------------------------------------------------------
C3_CapacityInvariant ==
  maxCount # NoMaxCount => OccupiedOrReserved(resources) <= maxCount

\* ------------------------------------------------------------------------
\* C4. PoolFull: an acquire issued when no slot is Occupied-Free and the
\* number of occupied and reserved slots is at least maxCount fails with
\* ResourcePoolFullError, invokes neither create nor destroy and leaves
\* every slot unchanged (with maxCount = 0: already the first acquire).
\* ------------------------------------------------------------------------
C4_AtCapacity ==
  /\ FreeSlots(resources) = {}
  /\ maxCount # NoMaxCount
  /\ OccupiedOrReserved(resources) >= maxCount

C4_Outcome ==
  C4_AtCapacity =>
    /\ acquireResult(resources, maxCount).outcome = "ResourcePoolFullError"
    /\ acquireResult(resources, maxCount).resources = resources

C4_Step ==
  (Acquire /\ C4_AtCapacity) =>
    UNCHANGED <<resources, creating, settled, createCalls, held, destroyCalls, sweeps>>

C4_PoolFull == [] C4_Outcome /\ [][C4_Step]_vars

\* a pool with a positive maxCount whose slots are all busy or reserved, as
\* many as maxCount, where acquire answers ResourcePoolFullError
C4_Witness ==
  /\ maxCount > 0
  /\ C4_AtCapacity
  /\ OccupiedOrReserved(resources) = maxCount
  /\ BusySlots(resources) # {}
  /\ acquireResult(resources, maxCount).outcome = "ResourcePoolFullError"

\* ------------------------------------------------------------------------
\* C5. Reuse before create: whenever a slot is Occupied-Free, acquire
\* resolves with the resource of the lowest-index Occupied-Free slot, turns
\* exactly that slot Occupied-Busy and does not invoke create; so an acquire
\* right after the release of a resource, with no other idle resource in the
\* pool, returns that resource and the count of create calls is unchanged.
\* ------------------------------------------------------------------------
C5_AcquireStep ==
  (Acquire /\ FreeSlots(resources) # {}) =>
    LET i == CHOOSE j \in FreeSlots(resources) : \A k \in FreeSlots(resources) : j <= k
        r == At(resources, i).resource
    IN /\ acquireResult(resources, maxCount).outcome = "resolved"
       /\ acquireResult(resources, maxCount).resource = r
       /\ resources' = [resources EXCEPT ![i + 1] = Resource(r, NoTime)]
       /\ held' = [held EXCEPT ![r] = @ + 1]
       /\ UNCHANGED <<createCalls, creating, settled, destroyCalls>>

C5_ReleaseStep ==
  \A x \in Values :
    (Release(x) /\ FreeSlots(resources) = {}
       /\ releaseResult(resources, x, clock).outcome = "resolved") =>
      /\ acquireResult(resources', maxCount).outcome = "resolved"
      /\ acquireResult(resources', maxCount).resource = x
      /\ acquireResult(resources', maxCount).resources = resources

C5_ReuseBeforeCreate == [][C5_AcquireStep /\ C5_ReleaseStep]_vars

\* two idle resources, the one created later at the lower index: acquire
\* answers the one at the lower index
C5_Witness ==
  \E i, j \in FreeSlots(resources) :
    /\ i < j
    /\ i = findIndexIdle(resources)
    /\ At(resources, i).resource > At(resources, j).resource
    /\ acquireResult(resources, maxCount).resource = At(resources, i).resource

\* ------------------------------------------------------------------------
\* C6. Creation failure recovery: when the create callback of an acquire
\* fails, the slot that the acquire reserved becomes Empty (and no other slot
\* changes), the acquire rejects, destroy is not invoked, the slot is no
\* longer counted by getCurrentResourceCount, and the next acquire that has
\* to create does not grow the sequence: it takes an Empty index, this one
\* unless a lower index is Empty as well.
\* ------------------------------------------------------------------------
C6_FailureStep ==
  \A t \in Tasks :
    CreateRejected(t) =>
      /\ creating[t] \in ReservedSlots(resources)
      /\ resources' = [resources EXCEPT ![creating[t] + 1] = Null]
      /\ settled'[t] = "rejected"
      /\ destroyCalls' = destroyCalls
      /\ getCurrentResourceCount(resources') = getCurrentResourceCount(resources) - 1
      /\ (FreeSlots(resources') = {} /\ isRoomForResource(maxCount, resources')) =>
           /\ acquireResult(resources', maxCount).outcome = "pending"
           /\ acquireResult(resources', maxCount).index \in EmptySlots(resources')
           /\ acquireResult(resources', maxCount).index <= creating[t]
           /\ Len(acquireResult(resources', maxCount).resources) = Len(resources')

C6_FailureRecovery == [][C6_FailureStep]_vars

\* ------------------------------------------------------------------------
\* C7. Release rejection: release(x) fails with ResourceNotPartOfPoolError
\* exactly when no Occupied-Busy slot holds x; this covers a value that
\* acquire never returned and a resource released a second time; a failed
\* release changes no slot and not the resource count.
\* ------------------------------------------------------------------------
C7_Outcome ==
  \A x \in Values :
    LET r == releaseResult(resources, x, clock) IN
    /\ r.outcome = "ResourceNotPartOfPoolError" <=>
         ~ \E i \in BusySlots(resources) : At(resources, i).resource = x
    /\ r.outcome = "ResourceNotPartOfPoolError" => r.resources = resources
    /\ (x = 0 \/ x > createCalls \/ settled[x] # "resolved") =>
         r.outcome = "ResourceNotPartOfPoolError"

C7_Step ==
  \A x \in Values :
    Release(x) =>
      /\ releaseResult(resources, x, clock).outcome = "ResourceNotPartOfPoolError" =>
           UNCHANGED vars
      /\ releaseResult(resources, x, clock).outcome = "resolved" =>
           /\ held[x] = 1
           /\ releaseResult(resources', x, clock).outcome = "ResourceNotPartOfPoolError"

C7_ReleaseRejection == [] C7_Outcome /\ [][C7_Step]_vars

\* a resource that was acquired and released sits idle in the pool, nobody
\* holds it, and releasing it once more is rejected
C7_Witness ==
  \E x \in Tasks :
    /\ settled[x] = "resolved"
    /\ held[x] = 0
    /\ SlotsOf(resources, x) # {}
    /\ SlotsOf(resources, x) \subseteq FreeSlots(resources)
    /\ BusySlots(resources) # {}
    /\ releaseResult(resources, x, clock).outcome = "ResourceNotPartOfPoolError"

\* ------------------------------------------------------------------------
\* Vocabulary of the eviction properties
\* ------------------------------------------------------------------------
\* the idle policy accepts the idle slot sl at the time now
Accepts(policy, sl, now) ==
  IF policy.type = "number"
    THEN now - sl.returnedAt >= policy.ms
    ELSE sl.resource \in policy.accept
\* the indexes that a sweep with the policy has to evict
Eligible(arr, min, policy, now) ==
  {i \in FreeSlots(arr) : i >= min /\ Accepts(policy, At(arr, i), now)}
\* the sweep that the latest runEviction started
NewSweep(sw) == sw[Len(sw)]
\* the step starts a sweep (only runEviction does)
SweepStarts == Len(sweeps') = Len(sweeps) + 1
SumDestroyCalls(calls) ==
  LET RECURSIVE Sum(_)
      Sum(v) == IF v < 0 THEN 0 ELSE calls[v] + Sum(v - 1)
  IN Sum(MaxCreates)

\* ------------------------------------------------------------------------
\* C8. Eviction eligibility: runEviction removes and destroys a slot if and
\* only if its index is >= minCount, it is Occupied-Free and the idle policy
\* accepts it (a number t: now - returnedAt >= t). Occupied-Busy and
\* Reserved slots are never evicted or destroyed, and resourcesDeleted
\* counts the eligible slots only.
\* ------------------------------------------------------------------------
C8_SweepStep ==
  \A policy \in Policies(resources) :
    (SweepStarts /\ RunEviction(policy)) =>
      LET E == Eligible(resources, minCount, policy, clock) IN
      /\ \A i \in Indexes(resources) :
           LET sl == At(resources, i) IN
           IsResource(sl) =>
             /\ i \in E <=> SlotsOf(resources', sl.resource) = {}
             /\ i \in E <=> destroyCalls'[sl.resource] = destroyCalls[sl.resource] + 1
             /\ i \notin E =>
                  /\ destroyCalls'[sl.resource] = destroyCalls[sl.resource]
                  /\ \E j \in Indexes(resources') : At(resources', j) = sl
      /\ Cardinality(BusySlots(resources')) = Cardinality(BusySlots(resources))
      /\ Cardinality(ReservedSlots(resources')) = Cardinality(ReservedSlots(resources))
      /\ Cardinality(FreeSlots(resources')) = Cardinality(FreeSlots(resources)) - Cardinality(E)
      /\ evictionResult(NewSweep(sweeps')).resourcesDeleted = Cardinality(E)
      /\ SumDestroyCalls(destroyCalls') = SumDestroyCalls(destroyCalls) + Cardinality(E)

C8_EvictionEligibility == [][C8_SweepStep]_vars

\* a sweep has evicted a resource of a pool with minCount 1 while an idle
\* resource stays at the protected index 0, another resource is checked out
\* and a creation is in flight
C8_Witness ==
  /\ minCount = 1
  /\ Len(sweeps) = 1
  /\ Len(sweeps[1].toBeEvicted) = 1
  /\ 0 \in FreeSlots(resources)
  /\ BusySlots(resources) # {}
  /\ ReservedSlots(resources) # {}

\* ------------------------------------------------------------------------
\* C9. Destroy failures are collected, never fatal: a sweep that selects N
\* slots invokes destroy on all N resources and removes all N from the pool;
\* a failing destroy is recorded and leaves the other destroy calls and the
\* pool alone; runEviction returns resourcesDeleted = N and one error per
\* failed destroy (destroy always failing on a pool of N idle resources:
\* N deleted, N errors, resource count 0).
\* ------------------------------------------------------------------------
C9_SweepStep ==
  \A policy \in Policies(resources) :
    (SweepStarts /\ RunEviction(policy)) =>
      LET N == Cardinality(Eligible(resources, minCount, policy, clock))
          sw == NewSweep(sweeps')
      IN /\ Len(sw.toBeEvicted) = N
         /\ sw.pending = 1 .. N
         /\ sw.errors = {}
         /\ \A k \in 1 .. N :
              /\ destroyCalls'[sw.toBeEvicted[k]] = destroyCalls[sw.toBeEvicted[k]] + 1
              /\ SlotsOf(resources', sw.toBeEvicted[k]) = {}
         /\ \A F \in SUBSET (1 .. N) :
              evictionResult([sw EXCEPT !.pending = {}, !.errors = F]) =
                [resourcesDeleted |-> N, errors |-> Cardinality(F)]
         /\ (policy = IdleTime(0) /\ minCount = 0
               /\ FreeSlots(resources) = Indexes(resources)) =>
              /\ N = Len(resources)
              /\ getCurrentResourceCount(resources') = 0

C9_SettleStep ==
  \A s \in 1 .. MaxSweeps, k \in Tasks, ok \in BOOLEAN :
    DestroySettled(s, k, ok) =>
      /\ Len(sweeps') = Len(sweeps)
      /\ sweeps'[s].toBeEvicted = sweeps[s].toBeEvicted
      /\ sweeps'[s].pending = sweeps[s].pending \ {k}
      /\ sweeps'[s].errors = IF ok THEN sweeps[s].errors ELSE sweeps[s].errors \cup {k}
      /\ UNCHANGED <<resources, destroyCalls>>

C9_Collected ==
  \A s \in 1 .. Len(sweeps) :
    /\ sweeps[s].errors \subseteq (1 .. Len(sweeps[s].toBeEvicted)) \ sweeps[s].pending
    /\ \A k \in 1 .. Len(sweeps[s].toBeEvicted) :
         /\ SlotsOf(resources, sweeps[s].toBeEvicted[k]) = {}
         /\ destroyCalls[sweeps[s].toBeEvicted[k]] >= 1
    /\ sweeps[s].pending = {} => ENABLED EvictionReturn(s)

C9_DestroyFailuresCollected ==
  [] C9_Collected /\ [][C9_SweepStep /\ C9_SettleStep]_vars

\* a sweep of a pool of two idle resources whose two destroy calls both
\* failed: the pool is empty and the result is 2 deleted, 2 errors
C9_Witness ==
  /\ Len(sweeps) = 1
  /\ Len(sweeps[1].toBeEvicted) = 2
  /\ sweeps[1].pending = {}
  /\ evictionResult(sweeps[1]) = [resourcesDeleted |-> 2, errors |-> 2]
  /\ getCurrentResourceCount(resources) = 0

\* ------------------------------------------------------------------------
\* C10. Eviction idempotence.
\* As claimed: runEviction(0) on a pool containing one free resource
\* destroys it and reports resourcesDeleted = 1 and no error; and a second
\* runEviction(0) right after a first one (no acquire, release or creation
\* completion in between, time may pass) reports resourcesDeleted = 0, calls
\* destroy zero times and leaves the slots unchanged.
\* ------------------------------------------------------------------------
\* what a runEviction(0) does with the array arr at any time from now on
C10_SecondSweepIdle(arr, now) ==
  \A c \in now .. MaxClock :
    LET p == partition(arr, minCount, IdleTime(0), c) IN
    /\ p.toBeEvicted = <<>>
    /\ p.toBeRetained = arr
    /\ countDestroys(destroyCalls', p.toBeEvicted) = destroyCalls'
    /\ evictionResult([toBeEvicted |-> p.toBeEvicted, pending |-> {}, errors |-> {}])
         = [resourcesDeleted |-> 0, errors |-> 0]

\* the sweep sw has destroyed the resource v alone, and returns 1 deleted
\* and, when its destroy call does not fail, no error
C10_DestroysOnly(sw, v) ==
  /\ sw.toBeEvicted = <<v>>
  /\ destroyCalls'[v] = destroyCalls[v] + 1
  /\ SlotsOf(resources', v) = {}
  /\ evictionResult([sw EXCEPT !.pending = {}]) = [resourcesDeleted |-> 1, errors |-> 0]

C10_OriginalStep ==
  (SweepStarts /\ RunEviction(IdleTime(0))) =>
    /\ \A i \in Indexes(resources) :
         FreeSlots(resources) = {i} =>
           C10_DestroysOnly(NewSweep(sweeps'), At(resources, i).resource)
    /\ C10_SecondSweepIdle(resources', clock')

C10_Original == [][C10_OriginalStep]_vars

\* As amended: the one free resource is destroyed when its index is
\* >= minCount (below minCount it is kept and resourcesDeleted = 0); the
\* second sweep is as claimed.
C10_AmendedStep ==
  (SweepStarts /\ RunEviction(IdleTime(0))) =>
    /\ \A i \in Indexes(resources) :
         FreeSlots(resources) = {i} =>
           IF i >= minCount
             THEN C10_DestroysOnly(NewSweep(sweeps'), At(resources, i).resource)
             ELSE /\ NewSweep(sweeps').toBeEvicted = <<>>
                  /\ destroyCalls' = destroyCalls
                  /\ At(resources, i) \in {At(resources', j) : j \in Indexes(resources')}
    /\ C10_SecondSweepIdle(resources', clock')

C10_EvictionIdempotence == [][C10_AmendedStep]_vars

\* runEviction(0) has emptied a pool of one idle resource, its destroy call
\* succeeded, and a second runEviction(0) would evict nothing
C10_Witness ==
  /\ Len(sweeps) = 1
  /\ Len(sweeps[1].toBeEvicted) = 1
  /\ sweeps[1].pending = {}
  /\ sweeps[1].errors = {}
  /\ resources = <<>>
  /\ createCalls = 1
  /\ partition(resources, minCount, IdleTime(0), clock).toBeEvicted = <<>>

\* ------------------------------------------------------------------------
\* C11. minCount as the minimum count of resources kept by eviction: a pool
\* that holds at least minCount resources (Occupied-Free or Occupied-Busy)
\* when runEviction starts still holds at least minCount resources when the
\* sweep has replaced the slot sequence.
\* ------------------------------------------------------------------------
\* the resources that the pool holds: Occupied-Free and Occupied-Busy slots
Holds(arr) == Cardinality(FreeSlots(arr)) + Cardinality(BusySlots(arr))

C11_SweepStep ==
  \A policy \in Policies(resources) :
    (SweepStarts /\ RunEviction(policy) /\ Holds(resources) >= minCount) =>
      Holds(resources') >= minCount

C11_MinCountKept == [][C11_SweepStep]_vars

\* ------------------------------------------------------------------------
\* C12. Factory validation: createSimpleResourcePool with maxCount given and
\* maxCount < minCount throws and returns no pool (no operation of a pool is
\* ever possible); with maxCount >= minCount or maxCount omitted it returns
\* an empty pool: count 0, getMinCount = minCount (0 when omitted),
\* getMaxCount = maxCount.
\* ------------------------------------------------------------------------
C12_Step ==
  createSimpleResourcePool =>
    LET min == IF minCount = NoMinCount THEN 0 ELSE minCount IN
    IF maxCount # NoMaxCount /\ maxCount < min
      THEN /\ construction' = "Error"
           /\ resources' = <<>>
      ELSE /\ construction' = "pool"
           /\ getCurrentResourceCount(resources') = 0
           /\ minCount' = min
           /\ maxCount' = maxCount

C12_Constructed ==
  /\ construction = "Error" =>
       /\ maxCount # NoMaxCount /\ maxCount < minCount
       /\ ~ ENABLED NextFactory
  /\ construction = "pool" =>
       /\ minCount >= 0
       /\ maxCount = NoMaxCount \/ maxCount >= minCount
  /\ construction = "none" => ENABLED createSimpleResourcePool

CreatedNotEvicted ==
  {t \in Tasks : settled[t] = "resolved" /\ destroyCalls[t] = 0}

C13_CountAccuracy ==
  Quiescent => getCurrentResourceCount(resources) = Cardinality(CreatedNotEvicted)

\* between two calls: one creation has failed and left an Empty slot, one
\* resource was evicted, and one resource is in the pool
C13_Witness ==
  /\ Quiescent
  /\ EmptySlots(resources) # {}
  /\ \E t \in Tasks : settled[t] = "resolved" /\ destroyCalls[t] = 1
  /\ getCurrentResourceCount(resources) = 1
  /\ Cardinality(CreatedNotEvicted) = 1

\* ------------------------------------------------------------------------
\* C14. Idle policy callback input: a predicate given to runEviction is
\* invoked exactly once for each Occupied-Free slot whose index is
\* >= minCount, and for no other slot, with the resource of the slot, its
\* returnedAt and one value of now, returnedAt <= now; the sweep evicts the
\* resources for which it answered true; when it answers false for every
\* slot, nothing is destroyed and the resource count is unchanged.
\* ------------------------------------------------------------------------
C14_SweepStep ==
  \A policy \in Policies(resources) :
    (SweepStarts /\ RunEviction(policy) /\ policy.type = "function") =>
      LET inputs == shouldEvictInputs(resources, 0, minCount, clock)
          S == {i \in FreeSlots(resources) : i >= minCount}
          accepted(input) == input.resource \in policy.accept
      IN /\ Len(inputs) = Cardinality(S)
         /\ \A i \in S :
              Cardinality({k \in 1 .. Len(inputs) :
                             /\ inputs[k].resource = At(resources, i).resource
                             /\ inputs[k].returnedAt = At(resources, i).returnedAt}) = 1
         /\ \A k \in 1 .. Len(inputs) :
              /\ inputs[k].now = clock
              /\ inputs[k].returnedAt <= inputs[k].now
              /\ inputs[k].returnedAt # NoTime
         /\ NewSweep(sweeps').toBeEvicted
              = [k \in 1 .. Len(SelectSeq(inputs, accepted)) |->
                   SelectSeq(inputs, accepted)[k].resource]
         /\ policy.accept = {} =>
              /\ NewSweep(sweeps').toBeEvicted = <<>>
              /\ destroyCalls' = destroyCalls
              /\ getCurrentResourceCount(resources') = getCurrentResourceCount(resources)

C14_CallbackInput == [][C14_SweepStep]_vars

\* a sweep has evicted nothing, and the pool has one idle resource at an
\* index >= minCount, returned before now: the one slot about which a
\* predicate is asked
C14_Witness ==
  /\ Len(sweeps) = 1
  /\ sweeps[1].toBeEvicted = <<>>
  /\ clock = MaxClock
  /\ \E i \in FreeSlots(resources) :
       /\ i >= minCount
       /\ At(resources, i).returnedAt = 0
       /\ shouldEvictInputs(resources, 0, minCount, clock)
            = <<[now |-> clock, returnedAt |-> 0, resource |-> At(resources, i).resource]>>

\* ------------------------------------------------------------------------
\* Vocabulary of the retry properties
\* ------------------------------------------------------------------------
AllPoolFull(seq) == \A i \in 1 .. Len(seq) : seq[i].out = ResourcePoolFullError
Front(seq) == SubSeq(seq, 1, Len(seq) - 1)
Last(seq) == seq[Len(seq)]
Failures(seq) == {i \in 1 .. Len(seq) : seq[i].out.class # "resource"}
\* the handle is augmentWithRetry(pool, static policy) with retryCount >= 1
OneStaticLayer ==
  /\ Len(built) = 1
  /\ built[1].type = "static"
  /\ built[1].retryCount >= 1

\* ------------------------------------------------------------------------
\* C15. Static retry success: with the static policy {retryCount: n}, n >= 1,
\* and an underlying acquire that fails with ResourcePoolFullError exactly k
\* times (k <= n) and then succeeds, the decorated acquire keeps trying
\* through the k failures and resolves with the resource after exactly k + 1
\* calls of the underlying acquire.
\* ------------------------------------------------------------------------
C15_StaticRetrySuccess ==
  OneStaticLayer =>
    LET n == built[1].retryCount IN
    /\ (AllPoolFull(attempts) /\ Len(attempts) <= n /\ phase # "ready") =>
         /\ phase \in {"acquiring", "waiting"}
         /\ result = NoResult
         /\ acquireCalled = Len(attempts) + (IF phase = "acquiring" THEN 1 ELSE 0)
    /\ (attempts # <<>> /\ Last(attempts).out = RESOURCE /\ AllPoolFull(Front(attempts))) =>
         /\ Len(attempts) - 1 <= n
         /\ phase = "resolved"
         /\ result = RESOURCE
         /\ acquireCalled = Len(attempts)

\* retryCount 2, two ResourcePoolFullError failures, success on the third call
C15_Witness ==
  /\ built = <<StaticRetryFunctionality(2, 0)>>
  /\ Len(attempts) = 3
  /\ attempts[1].out = ResourcePoolFullError
  /\ attempts[2].out = ResourcePoolFullError
  /\ attempts[3].out = RESOURCE
  /\ phase = "resolved"
  /\ result = RESOURCE
  /\ acquireCalled = 3

\* ------------------------------------------------------------------------
\* C16. Static retry exhaustion: with the static policy {retryCount: n},
\* n >= 1, and an underlying acquire that always fails with
\* ResourcePoolFullError, the decorated acquire fails with
\* NoMoreRetriesLeftError after exactly n + 1 underlying attempts; the error
\* is made from the attempt count n + 1 and the last ResourcePoolFullError.
\* ------------------------------------------------------------------------
C16_StaticRetryExhaustion ==
  OneStaticLayer =>
    LET n == built[1].retryCount IN
    /\ Len(attempts) <= n + 1
    /\ acquireCalled <= n + 1
    /\ (AllPoolFull(attempts) /\ Len(attempts) = n + 1) =>
         /\ phase = "rejected"
         /\ result = NoMoreRetriesLeftError(n + 1, Last(attempts).out)
         /\ acquireCalled = n + 1
    /\ result.class = "NoMoreRetriesLeftError" =>
         /\ AllPoolFull(attempts)
         /\ Len(attempts) = n + 1
         /\ result.attemptCount = n + 1
         /\ result.cause = "ResourcePoolFullError"

\* retryCount 1, waiting 1 ms between the attempts: two failures, then
\* NoMoreRetriesLeftError with attempt count 2
C16_Witness ==
  /\ built = <<StaticRetryFunctionality(1, 1)>>
  /\ Len(attempts) = 2
  /\ AllPoolFull(attempts)
  /\ phase = "rejected"
  /\ result.class = "NoMoreRetriesLeftError"
  /\ result.attemptCount = 2
  /\ acquireCalled = 2

\* ------------------------------------------------------------------------
\* C17. Static retry ignores non-capacity errors.
\* As claimed: under a static policy, when the underlying acquire fails with
\* anything other than ResourcePoolFullError, thrown or rejected, on
\* whichever attempt, the decorated acquire makes no further attempt, does
\* not wait, and fails with that same thrown value.
\* ------------------------------------------------------------------------
\* the latest underlying attempt failed, and not with ResourcePoolFullError
C17_OtherFailure ==
  /\ Len(built) = 1
  /\ built[1].type = "static"
  /\ attempts # <<>>
  /\ Last(attempts).out.class \notin {"resource", "ResourcePoolFullError"}

C17_Original ==
  C17_OtherFailure =>
    /\ phase = "rejected"
    /\ acquireCalled = Len(attempts)
    /\ result = Last(attempts).out

\* As amended: no further attempt and no wait, and the decorated acquire
\* fails with the same error when the thrown value is an Error; a handle
\* that augmentWithRetry wrapped (retryCount >= 1) turns a thrown value that
\* is not an Error into a new Error (toError) and fails with that one.
C17_StaticIgnoresOtherErrors ==
  C17_OtherFailure =>
    /\ phase = "rejected"
    /\ acquireCalled = Len(attempts)
    /\ Len(consulted) = (IF built[1].retryCount >= 1 THEN Len(attempts) ELSE 0)
    /\ Last(attempts).out.class # "NotAnError" => result = Last(attempts).out
    /\ Last(attempts).out.class = "NotAnError" =>
         result = (IF built[1].retryCount >= 1
                     THEN Value("Error", 0, "NotAnError", 0)
                     ELSE Last(attempts).out)

\* the first attempt failed with ResourcePoolFullError and was retried after
\* a wait, the second threw another Error synchronously: the acquire failed
\* with that Error after two calls
C17_Witness ==
  /\ built = <<StaticRetryFunctionality(2, 1)>>
  /\ Len(attempts) = 2
  /\ attempts[1].out = ResourcePoolFullError
  /\ attempts[2] = [out |-> CreationError, mode |-> "thrown"]
  /\ phase = "rejected"
  /\ result = CreationError
  /\ acquireCalled = 2

\* ------------------------------------------------------------------------
\* C18. Single retry layer.
\* As claimed: augmentWithRetry(augmentWithRetry(P, A), B) is
\* augmentWithRetry(P, B): one acquireWithRetry loop runs, only the policy B
\* is consulted, once per failed attempt, and the calls of the underlying
\* acquire and the outcome follow B alone (A with retryCount 1, B with
\* retryCount 2, two ResourcePoolFullError failures and a success: 3 calls,
\* resolved).
\* ------------------------------------------------------------------------
\* the retry function that augmentWithRetry derives from its argument
RetryInfoOf(arg) == IF arg.type = "function" THEN arg ELSE dynamicFromStatic(arg)

\* the handle has at most one layer, and the acquire call runs under the
\* retry function E alone (none when E is undefined)
C18_GovernedBy(E) ==
  /\ Len(handle) <= 1
  /\ Len(frames) <= 1
  /\ \A i \in 1 .. Len(consulted) : consulted[i].layer = 1
  /\ Len(consulted) = (IF E.type = "undefined" THEN 0 ELSE Cardinality(Failures(attempts)))
  /\ E.type # "undefined" =>
       \A i \in 1 .. Len(consulted) :
         LET answer == retryFunctionality(E, toError(attempts[i].out), i) IN
         IF answer.class = "RetryParameters"
           THEN \/ acquireCalled >= i + 1
                \/ i = Len(attempts) /\ phase = "waiting"
           ELSE /\ i = Len(attempts)
                /\ acquireCalled = i
                /\ phase = "rejected"
                /\ result = answer
  /\ E.type = "undefined" => acquireCalled <= 1

C18_Scenario ==
  (built[1].retryCount = 1 /\ built[2].type = "static" /\ built[2].retryCount = 2
     /\ Len(attempts) = 3 /\ AllPoolFull(Front(attempts))
     /\ Last(attempts).out = RESOURCE) =>
    /\ phase = "resolved"
    /\ result = RESOURCE
    /\ acquireCalled = 3

C18_Original ==
  Len(built) = 2 =>
    /\ handle = augmentWithRetry(OriginalPool, built[2])
    /\ C18_GovernedBy(RetryInfoOf(built[2]))
    /\ C18_Scenario

\* As amended: the above holds when B is a function or a static policy with
\* retryCount >= 1. With a static B of retryCount 0 or less, augmentWithRetry
\* returns the pool it was given, which is augmentWithRetry(P, A): then A
\* alone governs the acquire.
C18_SingleRetryLayer ==
  Len(built) = 2 =>
    /\ IF RetryInfoOf(built[2]).type # "undefined"
         THEN /\ handle = augmentWithRetry(OriginalPool, built[2])
              /\ C18_GovernedBy(RetryInfoOf(built[2]))
         ELSE /\ handle = augmentWithRetry(OriginalPool, built[1])
              /\ C18_GovernedBy(RetryInfoOf(built[1]))
    /\ C18_Scenario

\* the scenario of the claim: inner retryCount 1 (wait 1), outer retryCount
\* 2 (no wait), two failures then success: 3 underlying calls, resolved
C18_Witness ==
  /\ built = <<StaticRetryFunctionality(1, 1), StaticRetryFunctionality(2, 0)>>
  /\ Len(attempts) = 3
  /\ AllPoolFull(Front(attempts))
  /\ Last(attempts).out = RESOURCE
  /\ phase = "resolved"
  /\ acquireCalled = 3
  /\ Len(consulted) = 2

C20_RetryNoOp ==
  Len(built) = 1 =>
    IF built[1].type = "static" /\ built[1].retryCount <= 0
      THEN /\ handle = OriginalPool
           /\ ~ poolIsWithRetryFunctionality(handle)
           /\ acquireCalled <= 1
           /\ consulted = <<>>
           /\ (attempts # <<>> /\ attempts[1].out.class # "resource") =>
                /\ Len(attempts) = 1
                /\ acquireCalled = 1
                /\ phase = "rejected"
                /\ result = attempts[1].out
      ELSE /\ poolIsWithRetryFunctionality(handle)
           /\ handle = <<RetryInfoOf(built[1])>>

\* retryCount 0: the acquire of the returned pool failed with
\* ResourcePoolFullError after a single call
C20_Witness ==
  /\ built = <<StaticRetryFunctionality(0, 0)>>
  /\ attempts = <<[out |-> ResourcePoolFullError, mode |-> "rejected"]>>
  /\ phase = "rejected"
  /\ result = ResourcePoolFullError
  /\ acquireCalled = 1

\* ------------------------------------------------------------------------
\* C29. Main wrapper outcome: invokeMainAndGetInfo returns exitCode 0 if and
\* only if the main callback resolves and exitCode 1 if it rejects (or
\* throws), and callProcessExit is false only when dontCallProcessExit is
\* true and the exit code is 0: on error process exit is always requested.
\* ------------------------------------------------------------------------
C29_MainWrapperOutcome ==
  mainPhase \in {"info", "exited", "returned"} =>
    /\ info.exitCode \in {0, 1}
    /\ info.exitCode = 0 <=> main.does = "resolves"
    /\ main.does \in {"rejects", "throws"} => info.exitCode = 1
    /\ info.callProcessExit = FALSE <=>
         (dontCallProcessExit = "true" /\ info.exitCode = 0)
    /\ info.exitCode = 1 => info.callProcessExit
    /\ mainPhase = "exited" <=> (mainPhase # "info" /\ info.callProcessExit)
    /\ errorLog = IF main.does = "resolves" THEN <<>> ELSE <<main.error>>

\* a main that resolved with dontCallProcessExit true: exit code 0 and no
\* process exit, so that invokeMain returned
C29_Witness ==
  /\ main.does = "resolves"
  /\ dontCallProcessExit = "true"
  /\ mainPhase = "returned"
  /\ info = [callProcessExit |-> FALSE, exitCode |-> 0]

\* a main that rejected with dontCallProcessExit true: process exit requested
C29_WitnessError ==
  /\ main.does = "rejects"
  /\ dontCallProcessExit = "true"
  /\ mainPhase = "exited"
  /\ info = [callProcessExit |-> TRUE, exitCode |-> 1]

\* ------------------------------------------------------------------------
\* Vocabulary of the cache properties
\* ------------------------------------------------------------------------
\* the lookups issued so far
Issued == 1 .. Len(lookups)
\* the lookup c invoked the underlying callback
InvokedCallback(c) == lookups[c].on = c
\* the lookup f invoked the callback and its promise has settled
Completed(f) == InvokedCallback(f) /\ lookups[f].stage # "awaiting"
SameInput(c, f) ==
  lookups[c].dir = lookups[f].dir /\ lookups[c].input = lookups[f].input
\* what a lookup observes of the outcome that the callback gave to the
\* lookup that invoked it: the value, or the saved error
Saved(out) == notified(completedOf(out))
\* the lookup that this step issues, when it issues one
IssuesLookup == Len(lookups') = Len(lookups) + 1
NewLookup == lookups'[Len(lookups')]
NewInvokes == NewLookup.on = Len(lookups')

\* ------------------------------------------------------------------------
\* C22. Cache single-flight: when a lookup for key k is issued while an
\* earlier lookup for the same k is still in progress, and k has not been
\* invalidated (or the cache cleared) in between, the later lookup does not
\* invoke the underlying callback: it is invoked exactly once for k,
\* whether it ends in success or in failure.
\* ------------------------------------------------------------------------
C22_SingleFlight ==
  /\ \A c \in Issued :
       (\E f \in lookups[c].during : ~lookups[f].invalidatedDuring) =>
         /\ ~InvokedCallback(c)
         /\ lookups[c].fetched = Pending
  /\ \A f \in Issued, g \in Issued :
       (/\ f # g
        /\ SameInput(f, g)
        /\ InvokedCallback(f) /\ InvokedCallback(g)
        /\ lookups[f].stage = "awaiting" /\ lookups[g].stage = "awaiting")
         => (lookups[f].invalidatedDuring \/ lookups[g].invalidatedDuring)

\* two lookups of one key, the second issued while the first was in
\* progress: one invocation of the callback, which failed
C22_Witness ==
  /\ Len(lookups) = 2
  /\ lookups[2].during = {1}
  /\ lookups[2].on = 1
  /\ ~lookups[1].invalidatedDuring
  /\ lookups[1].stage = "settled" /\ lookups[2].stage = "settled"
  /\ lookups[1].outcome.kind = "rejected"

\* ------------------------------------------------------------------------
\* C23. Cache joined callers share the outcome: every caller that looked up
\* key k while a fetch for k was in progress observes the same outcome as
\* the caller that started the fetch: the same value when it succeeds and
\* the same error when it fails. Stated for the fetches during which k was
\* never invalidated, and taking a thrown value that is not an Error to be
\* the same as the Error the cache wraps it in.
\* ------------------------------------------------------------------------
C23_JoinedShareOutcome ==
  \A c \in Issued : \A f \in lookups[c].during :
    (/\ ~lookups[f].invalidatedDuring
     /\ lookups[f].stage # "awaiting"
     /\ lookups[c].stage # "awaiting")
      => Saved(lookups[c].outcome) = Saved(lookups[f].outcome)

\* ------------------------------------------------------------------------
\* C24. Cache remembers completed lookups: after a fetch for key k
\* completed, every later lookup of k (until k is invalidated or the cache
\* is cleared) returns the same value, or fails with the error saved from
\* that fetch, without invoking the underlying callback again. Stated for
\* the fetches of a k that was invalidated neither during the fetch nor
\* after it.
\* ------------------------------------------------------------------------
C24_CompletedRemembered ==
  \A c \in Issued, f \in Issued :
    (/\ f < c
     /\ SameInput(c, f)
     /\ Completed(f)
     /\ f \notin lookups[c].during
     /\ ~lookups[f].invalidatedDuring
     /\ ~lookups[f].invalidatedAfter)
      => /\ ~InvokedCallback(c)
         /\ lookups[c].stage # "awaiting" =>
              lookups[c].outcome = Saved(lookups[f].fetched)

\* ------------------------------------------------------------------------
\* C25. Cache invalidation: after invalidate(k) on a one-directional cache
\* holding a completed entry for k, the entry of k is gone and the entries
\* of the other keys are unchanged; no entry of k appears before the next
\* lookup of k, which invokes the underlying callback again and returns the
\* new result of it.
\* ------------------------------------------------------------------------
C25_Invalidation ==
  [][\A k \in Strings :
       /\ (invalidate(k) /\ maps[keyToValue][k].kind \in {succeeded, errored}) =>
            /\ maps'[keyToValue][k] = NoEntry
            /\ \A other \in Strings \ {k} :
                 maps'[keyToValue][other] = maps[keyToValue][other]
       /\ (maps[keyToValue][k] = NoEntry /\ maps'[keyToValue][k] # NoEntry) =>
            /\ IssuesLookup
            /\ NewLookup.input = k
       /\ (IssuesLookup /\ NewLookup.input = k /\ maps[keyToValue][k] = NoEntry) =>
            NewInvokes
       /\ \A c \in Issued :
            (InvokedCallback(c) /\ lookups[c].stage = "awaiting"
               /\ lookups'[c].stage # "awaiting") =>
              /\ lookups'[c].fetched \in CallbackOutcomes
              /\ lookups'[c].outcome = lookups'[c].fetched
     ]_vars

\* key 2 is cached; key 1 was looked up, invalidated after its fetch
\* completed and looked up again: the callback was invoked again and its
\* new result returned, while the entry of key 2 is still there
C25_Witness ==
  /\ Len(lookups) = 3
  /\ lookups[1].input = 2 /\ lookups[1].outcome = Resolved(2)
  /\ maps[keyToValue][2] = CacheableValueSucceeded(2)
  /\ ~lookups[1].invalidatedAfter
  /\ lookups[2].input = 1 /\ lookups[2].outcome = Resolved(1)
  /\ lookups[2].invalidatedAfter
  /\ lookups[3].input = 1 /\ InvokedCallback(3)
  /\ lookups[3].outcome = Resolved(2)
  /\ maps[keyToValue][1] = CacheableValueSucceeded(2)

\* the two caches: a one-directional one or a bi-directional one
InitAnyCache ==
  /\ NoPool
  /\ NoRetry
  /\ NoMain
  /\ biDi \in BOOLEAN
  /\ maps = [d \in Directions |-> EmptyMap]
  /\ lookups = <<>>

NextAnyCache ==
  \/ ~biDi /\ NextCache
  \/ biDi /\ NextBiDiCache

SpecAnyCache == InitAnyCache /\ [][NextAnyCache]_vars

\* the step is the continuation of registerToInverseMap for lookup c, which
\* resolved
Registers(c) ==
  /\ c \in Issued
  /\ lookups[c].stage = "settled"
  /\ lookups[c].outcome.kind = "resolved"
  /\ lookups'[c].stage = "returned"

\* a lookup of input in direction dir, issued now, would resolve with value
\* without invoking the callback
AnswersFromMap(ms, dir, input, value) ==
  /\ cachePromiseFound(ms[dir][input]).kind = succeeded
  /\ cachePromiseFound(ms[dir][input]).result = value

\* ------------------------------------------------------------------------
\* C26 as stated. Bi-directional cache registers the inverse: after a
\* key-to-value lookup of k resolved to v, with no prior entry for v in the
\* value-to-key direction, the value-to-key lookup of v returns k without
\* invoking either underlying callback; symmetrically for a value-to-key
\* lookup.
\* ------------------------------------------------------------------------
C26_Original ==
  [][\A c \in Issued :
       LET dir == lookups[c].dir
           k == lookups[c].input
           v == lookups[c].outcome.result
       IN (Registers(c) /\ maps[inverse(dir)][v] = NoEntry) =>
            AnswersFromMap(maps', inverse(dir), v, k)
     ]_vars

\* ------------------------------------------------------------------------
\* C26. Bi-directional cache registers the inverse: when a lookup of k in
\* one direction resolved to v, there is no prior entry for v in the other
\* direction, and the map of its own direction still has an entry for k (k
\* was not invalidated or cleared during the lookup without being looked up
\* again), the lookup of v in the other direction returns k without invoking
\* either underlying callback. In every other case the lookup leaves both
\* maps as they are.
\* ------------------------------------------------------------------------
C26_RegistersInverse ==
  [][\A c \in Issued :
       LET dir == lookups[c].dir
           k == lookups[c].input
           v == lookups[c].outcome.result
       IN Registers(c) =>
            IF maps[inverse(dir)][v] = NoEntry /\ maps[dir][k] # NoEntry
              THEN /\ AnswersFromMap(maps', inverse(dir), v, k)
                   /\ maps'[dir] = maps[dir]
                   /\ \A w \in Strings \ {v} :
                        maps'[inverse(dir)][w] = maps[inverse(dir)][w]
              ELSE maps' = maps
     ]_vars

\* the lookup of key 1 resolved to 2 and registered the inverse; the lookup
\* of value 2 then returned key 1 and no callback was invoked for it
C26_Witness ==
  /\ Len(lookups) = 2
  /\ lookups[1].dir = keyToValue /\ lookups[1].input = 1
  /\ lookups[1].outcome = Resolved(2) /\ lookups[1].stage = "returned"
  /\ lookups[2].dir = valueToKey /\ lookups[2].input = 2
  /\ ~InvokedCallback(2) /\ lookups[2].on = 0
  /\ lookups[2].outcome = Resolved(1)
  /\ lookups[2].stage = "returned"

\* ------------------------------------------------------------------------
\* C27. Bi-directional invalidation removes both directions: invalidating
\* by key k whose entry succeeded with value v removes k from the
\* key-to-value map and v from the value-to-key map (and symmetrically when
\* invalidating by value), so that the next lookup in either direction
\* invokes the corresponding underlying callback again.
\* ------------------------------------------------------------------------
C27_InvalidationBothDirections ==
  [][/\ \A dir \in Directions, k \in Strings :
          (invalidateBiDi(dir, k) /\ maps[dir][k].kind = succeeded) =>
            LET v == maps[dir][k].result IN
            /\ maps'[dir][k] = NoEntry
            /\ maps'[inverse(dir)][v] = NoEntry
            /\ cachePromiseFound(maps'[dir][k]) = NoEntry
            /\ cachePromiseFound(maps'[inverse(dir)][v]) = NoEntry
            /\ \A other \in Strings \ {k} : maps'[dir][other] = maps[dir][other]
            /\ \A other \in Strings \ {v} :
                 maps'[inverse(dir)][other] = maps[inverse(dir)][other]
     /\ (IssuesLookup /\ maps[NewLookup.dir][NewLookup.input] = NoEntry) =>
          NewInvokes
    ]_vars

\* key 1 resolved to 2 and the inverse was registered; after the
\* invalidation by key 1 both maps are empty and the lookup of value 2
\* invoked the value-to-key callback
C27_Witness ==
  /\ Len(lookups) = 2
  /\ lookups[1].dir = keyToValue /\ lookups[1].input = 1
  /\ lookups[1].outcome = Resolved(2) /\ lookups[1].stage = "returned"
  /\ lookups[1].invalidatedAfter
  /\ lookups[2].dir = valueToKey /\ lookups[2].input = 2
  /\ InvokedCallback(2)
  /\ lookups[2].during = {}
  /\ maps[keyToValue] = EmptyMap

\* ------------------------------------------------------------------------
\* C28. Cache clear: after clear(), the one-directional cache map, and both
\* maps of a bi-directional cache, contain no entries, whatever lookups
\* completed before.
\* ------------------------------------------------------------------------
C28_Clear ==
  [][clear => \A dir \in Directions, k \in Strings : maps'[dir][k] = NoEntry]_vars

\* the clear of a cache that held a completed entry: its lookup was told,
\* and the maps are empty
C28_Witness ==
  /\ Len(lookups) >= 1
  /\ lookups[1].stage # "awaiting"
  /\ lookups[1].outcome.kind = "resolved"
  /\ lookups[1].invalidatedAfter
  /\ ~lookups[1].invalidatedDuring
  /\ \A c \in Issued \ {1} : lookups[c].input # lookups[1].input
  /\ maps = [d \in Directions |-> EmptyMap]

\* ------------------------------------------------------------------------
\* C30. Reservation uniqueness: in every reachable state, under any
\* interleaving of acquire, release, creation completions and runEviction,
\* no two in-flight creations target the same slot index, and the index an
\* in-flight creation will write to holds a Reserved marker that belongs to
\* that creation (no other in-flight creation targets it).
\* ------------------------------------------------------------------------
C30_ReservationUniqueness ==
  \A t \in InFlight :
    /\ creating[t] \in Indexes(resources)
    /\ IsReserved(At(resources, creating[t]))
    /\ \A u \in InFlight \ {t} : creating[u] # creating[t]

\* ------------------------------------------------------------------------
\* retry.ts over pool.ts: the pool of createSimpleResourcePool with the
\* retry option, used by one caller through the decorated acquire and by
\* other callers directly
\* ------------------------------------------------------------------------
\* The loop of acquireWithRetry from a call of the acquire of the pool on
\* the array arr up to its next await or its end: an idle resource resolves
\* the call, a creation leaves it pending, and ResourcePoolFullError is
\* thrown before any await, so that a retry without waiting calls acquire
\* again in the same turn. n counts the calls of the acquire of the pool.
RECURSIVE attempt(_, _, _, _, _)
attempt(arr, fr, log, atts, n) ==
  LET r == acquireResult(arr, maxCount) IN
  IF r.outcome = "resolved"
    THEN LET d == deliver(handle, fr, RESOURCE, log) IN
         [acquire |-> r, frames |-> d.frames, consulted |-> d.consulted,
          result |-> d.result, phase |-> d.phase,
          attempts |-> Append(atts, [out |-> RESOURCE, mode |-> "rejected"]),
          acquireCalled |-> n]
    ELSE IF r.outcome = "pending"
      THEN [acquire |-> r, frames |-> fr, consulted |-> log,
            result |-> NoResult, phase |-> "acquiring",
            attempts |-> atts, acquireCalled |-> n]
      ELSE LET d == deliver(handle, fr, ResourcePoolFullError, log)
               atts2 == Append(atts, [out |-> ResourcePoolFullError,
                                      mode |-> "thrown"])
           IN IF d.phase = "again"
                THEN attempt(arr, enter(handle, d.frames), d.consulted, atts2, n + 1)
                ELSE [acquire |-> r, frames |-> d.frames, consulted |-> d.consulted,
                      result |-> d.result, phase |-> d.phase,
                      attempts |-> atts2, acquireCalled |-> n]

\* the state after the loop stopped as a says; cr and st are creating and
\* settled as they were when the last call of acquire was made
Attempted(cr, st, a) ==
  LET r == a.acquire IN
  /\ r.outcome = "pending" => createCalls < MaxCreates
  /\ resources' = r.resources
  /\ held' = IF r.outcome = "resolved"
               THEN [held EXCEPT ![r.resource] = @ + 1] ELSE held
  /\ createCalls' = IF r.outcome = "pending" THEN createCalls + 1 ELSE createCalls
  /\ creating' = IF r.outcome = "pending"
                   THEN [cr EXCEPT ![createCalls + 1] = r.index] ELSE cr
  /\ settled' = IF r.outcome = "pending"
                  THEN [st EXCEPT ![createCalls + 1] = "pending"] ELSE st
  /\ awaited' = IF r.outcome = "pending" THEN createCalls + 1 ELSE 0
  /\ releasedInWait' = FALSE
  /\ frames' = a.frames
  /\ consulted' = a.consulted
  /\ result' = a.result
  /\ phase' = a.phase
  /\ attempts' = a.attempts
  /\ acquireCalled' = a.acquireCalled
  /\ UNCHANGED <<handle, built, minCount, maxCount, clock, destroyCalls, sweeps>>
  /\ UNCHANGED <<construction, cacheVars, mainVars>>

\* the acquire of the handle is called
RetryAcquire ==
  /\ phase = "ready"
  /\ Attempted(creating, settled,
               attempt(resources, enter(handle, <<>>), consulted, attempts,
                       acquireCalled + 1))

\* the timer of waitBeforeRetryMs fired: the loop calls the acquire of the
\* pool again
RetryTimerFired ==
  /\ phase = "waiting"
  /\ Attempted(creating, settled,
               attempt(resources, enter(handle, frames), consulted, attempts,
                       acquireCalled + 1))

\* create() resolved for the acquire that the loop awaits: acquireAsync
\* writes the slot and every layer of the handle returns the resource
RetryCreateResolved ==
  LET d == deliver(handle, frames, RESOURCE, consulted) IN
  /\ phase = "acquiring"
  /\ awaited # 0
  /\ resources' = SetAt(resources, creating[awaited], Resource(awaited, NoTime))
  /\ creating' = [creating EXCEPT ![awaited] = NoIndex]
  /\ settled' = [settled EXCEPT ![awaited] = "resolved"]
  /\ held' = [held EXCEPT ![awaited] = @ + 1]
  /\ awaited' = 0
  /\ releasedInWait' = FALSE
  /\ frames' = d.frames
  /\ consulted' = d.consulted
  /\ result' = d.result
  /\ phase' = d.phase
  /\ attempts' = Append(attempts, [out |-> RESOURCE, mode |-> "rejected"])
  /\ UNCHANGED <<handle, built, acquireCalled, minCount, maxCount, clock,
                 createCalls, destroyCalls, sweeps>>
  /\ UNCHANGED <<construction, cacheVars, mainVars>>

\* create() failed with error for the acquire that the loop awaits:
\* acquireAsync marks the slot and rethrows, and the loop asks the retry
\* function, which may have it call the acquire of the pool again at once
RetryCreateRejected(error) ==
  LET arr == SetAt(resources, creating[awaited], Null)
      cr == [creating EXCEPT ![awaited] = NoIndex]
      st == [settled EXCEPT ![awaited] = "rejected"]
      atts == Append(attempts, [out |-> error, mode |-> "rejected"])
      d == deliver(handle, frames, error, consulted)
  IN
  /\ phase = "acquiring"
  /\ awaited # 0
  /\ Attempted(cr, st,
       IF d.phase = "again"
         THEN attempt(arr, enter(handle, d.frames), d.consulted, atts,
                      acquireCalled + 1)
         ELSE [acquire |-> [outcome |-> "none", resource |-> 0,
                            index |-> NoIndex, resources |-> arr],
               frames |-> d.frames, consulted |-> d.consulted,
               result |-> d.result, phase |-> d.phase,
               attempts |-> atts, acquireCalled |-> acquireCalled])

\* the retry options given to createSimpleResourcePool
PoolRetryBuilds ==
  {<<StaticRetryFunctionality(n, w)>> : n \in 0 .. MaxRetryCount, w \in 0 .. MaxWaitMs}
    \cup {<<DynamicRetryFunctionality({"ResourcePoolFullError", "CreationError"},
                                      1, w)>> : w \in 0 .. MaxWaitMs}

\* the state right after createSimpleResourcePool returned the pool with
\* the retry option
InitPoolRetry ==
  /\ resources = <<>>
  /\ minCount = 0
  /\ maxCount \in 1 .. MaxPoolRetryMaxCount
  /\ clock = 0
  /\ creating = [t \in Tasks |-> NoIndex]
  /\ settled = [t \in Tasks |-> "none"]
  /\ createCalls = 0
  /\ held = [v \in Values |-> 0]
  /\ destroyCalls = [v \in Values |-> 0]
  /\ sweeps = <<>>
  /\ construction = "pool"
  /\ built \in PoolRetryBuilds
  /\ handle = augmentAll(OriginalPool, built)
  /\ frames = <<>>
  /\ phase = "ready"
  /\ attempts = <<>>
  /\ acquireCalled = 0
  /\ consulted = <<>>
  /\ result = NoResult
  /\ awaited = 0
  /\ releasedInWait = FALSE
  /\ NoCache
  /\ NoMain

\* a release that cannot be called while the loop of acquireWithRetry waits
ReleaseByOtherBlocked(x) ==
  /\ phase # "waiting"
  /\ releaseCalled(x)
  /\ UNCHANGED <<handle, built, frames, phase, attempts, acquireCalled,
                 consulted, result, awaited, releasedInWait>>
  /\ UNCHANGED <<construction, cacheVars, mainVars>>

\* the release of the pool called by another caller; a release that
\* returns a resource while the loop waits is noted
ReleaseByOther(x) ==
  /\ releaseCalled(x)
  /\ releasedInWait' = (releasedInWait
                          \/ (phase = "waiting"
                                /\ releaseResult(resources, x, clock).outcome = "resolved"))
  /\ UNCHANGED <<handle, built, frames, phase, attempts, acquireCalled,
                 consulted, result, awaited>>
  /\ UNCHANGED <<construction, cacheVars, mainVars>>

\* the calls of the other callers
OtherCallers ==
  \/ Acquire
  \/ \E t \in Tasks \ {awaited} : CreateResolved(t)
  \/ \E t \in Tasks \ {awaited} : CreateRejected(t)
  \/ \E x \in Values : ReleaseByOther(x)
  \/ \E policy \in Policies(resources) : RunEviction(policy)
  \/ \E s \in 1 .. MaxSweeps, k \in Tasks, ok \in BOOLEAN : DestroySettled(s, k, ok)
  \/ \E s \in 1 .. MaxSweeps : EvictionReturn(s)
  \/ Tick

NextPoolRetry ==
  \/ RetryAcquire
  \/ RetryTimerFired
  \/ RetryCreateResolved
  \/ \E error \in {CreationError, NotAnError} : RetryCreateRejected(error)
  \/ OtherCallers

SpecPoolRetry == InitPoolRetry /\ [][NextPoolRetry]_vars

\* ------------------------------------------------------------------------
\* Vocabulary of the retry-over-pool properties
\* ------------------------------------------------------------------------
\* the step is the attempt that the loop makes when its wait ends
WaitEnds == phase = "waiting" /\ acquireCalled' > acquireCalled
\* how the first call of the acquire of the pool in this step ended
FirstAttemptFails ==
  /\ Len(attempts') > Len(attempts)
  /\ attempts'[Len(attempts) + 1].out = ResourcePoolFullError
\* the decorated acquire got the idle resource of the lowest index
ObtainsIdle ==
  LET i == findIndexIdle(resources)
      x == At(resources, i).resource
  IN
  /\ phase' = "resolved"
  /\ result' = RESOURCE
  /\ acquireCalled' = acquireCalled + 1
  /\ held' = [held EXCEPT ![x] = @ + 1]
  /\ resources' = markAcquired(resources, i)

\* ------------------------------------------------------------------------
\* C21 as stated. Retry wait does not block the pool: if a resource is
\* released during the wait of a decorated acquire and the attempt budget
\* is not exhausted, the next attempt of the waiting acquire obtains a
\* resource instead of failing.
\* ------------------------------------------------------------------------
C21_Original ==
  [][(WaitEnds /\ releasedInWait) => ~FirstAttemptFails]_vars

\* ------------------------------------------------------------------------
\* C21. Retry wait does not block the pool: while a decorated acquire on a
\* pool at full capacity is waiting between attempts, release, other acquire
\* calls and runEviction issued by other callers proceed on the shared state
\* and leave the waiting loop as it is; if a resource is idle in the pool
\* when the wait ends (released during the wait and neither taken by another
\* acquire nor evicted since), the next attempt obtains it instead of
\* failing, and if the pool is still full it fails again.
\* ------------------------------------------------------------------------
C21_OthersProceed ==
  phase = "waiting" =>
    /\ \A x \in Values : ENABLED ReleaseByOther(x)
    /\ (acquireResult(resources, maxCount).outcome = "pending" => createCalls < MaxCreates)
         => ENABLED Acquire
    /\ Len(sweeps) < MaxSweeps =>
         \A policy \in Policies(resources) : ENABLED RunEviction(policy)

C21_WaitStep ==
  /\ (phase = "waiting" /\ ~WaitEnds) => UNCHANGED <<frames, phase, attempts,
                                                     acquireCalled, consulted, result>>
  /\ (WaitEnds /\ FreeSlots(resources) # {}) => ObtainsIdle
  /\ (WaitEnds /\ FreeSlots(resources) = {}
        /\ ~isRoomForResource(maxCount, resources)) => FirstAttemptFails

C21_RetryWaitDoesNotBlock ==
  /\ []C21_OthersProceed
  /\ [][C21_WaitStep]_vars

\* the pool of one resource was full at the first attempt; during the wait
\* the resource was released by its holder, and the second attempt got it
C21_Witness ==
  /\ maxCount = 1
  /\ built = <<StaticRetryFunctionality(1, 1)>>
  /\ createCalls = 1
  /\ Len(attempts) = 2
  /\ attempts[1].out = ResourcePoolFullError
  /\ attempts[2].out = RESOURCE
  /\ acquireCalled = 2
  /\ phase = "resolved"
  /\ held[1] = 1
  /\ resources = <<Resource(1, NoTime)>>

\* ------------------------------------------------------------------------
\* Vocabulary of the properties of the sweep and the slots
\* ------------------------------------------------------------------------
\* the slots of arr at the indexes from idx on that are neither Empty (null
\* or never written) nor at an index of E, in their order
RECURSIVE Survivors(_, _, _)
Survivors(arr, idx, E) ==
  IF idx >= Len(arr)
    THEN <<>>
    ELSE (IF At(arr, idx).kind \in {"null", "hole"} \/ idx \in E
            THEN <<>> ELSE <<At(arr, idx)>>)
           \o Survivors(arr, idx + 1, E)
\* the resources that the sweep sw selected
SelectedBy(sw) == {sw.toBeEvicted[k] : k \in 1 .. Len(sw.toBeEvicted)}

\* ------------------------------------------------------------------------
\* C31. Eviction replaces the slot sequence atomically: the retained
\* sequence (all non-Empty slots that were not evicted) replaces the slots
\* of the pool in the synchronous step of runEviction, before any destroy
\* call is awaited, so that an acquire or release that runs while destroy
\* calls are pending sees the full post-partition state, and an acquire
\* never returns a resource that the sweep selected for eviction.
\* ------------------------------------------------------------------------
C31_SweepStep ==
  \A policy \in Policies(resources) :
    (SweepStarts /\ RunEviction(policy)) =>
      LET E == Eligible(resources, minCount, policy, clock)
          sw == NewSweep(sweeps')
      IN /\ resources' = Survivors(resources, 0, E)
         /\ sw.pending = 1 .. Len(sw.toBeEvicted)
         /\ SelectedBy(sw) = {At(resources, i).resource : i \in E}
         /\ \A x \in SelectedBy(sw) : SlotsOf(resources', x) = {}

C31_SettleStep ==
  (\E s \in 1 .. Len(sweeps) : Len(sweeps') = Len(sweeps) /\ sweeps'[s] # sweeps[s])
    => resources' = resources

C31_WhilePending ==
  \A s \in 1 .. Len(sweeps) : \A x \in SelectedBy(sweeps[s]) :
    /\ SlotsOf(resources, x) = {}
    /\ acquireResult(resources, maxCount).outcome = "resolved" =>
         acquireResult(resources, maxCount).resource # x
    /\ releaseResult(resources, x, clock).outcome = "ResourceNotPartOfPoolError"

C31_AcquireStep ==
  \A x \in Values :
    held'[x] > held[x] => \A s \in 1 .. Len(sweeps) : x \notin SelectedBy(sweeps[s])

C31_AtomicReplacement ==
  /\ [] C31_WhilePending
  /\ [][C31_SweepStep /\ C31_SettleStep /\ C31_AcquireStep]_vars

\* the sweep evicted the only resource and its destroy call is pending; an
\* acquire that ran meanwhile found the empty array and reserved index 0
C31_Witness ==
  /\ Len(sweeps) = 1
  /\ sweeps[1].toBeEvicted = <<1>>
  /\ sweeps[1].pending = {1}
  /\ createCalls = 2
  /\ creating[2] = 0
  /\ resources = <<Undefined>>


\* ------------------------------------------------------------------------
\* C32. Held resources stay releasable: under any interleaving of acquire,
\* release, completions of creations and runEviction, every resource that
\* acquire returned to a caller and that the caller has not released yet is
\* held in an Occupied-Busy slot, so that releasing it succeeds and does
\* not fail with ResourceNotPartOfPoolError.
\* ------------------------------------------------------------------------
C32_HeldReleasable ==
  \A x \in Values :
    held[x] > 0 =>
      /\ SlotsOf(resources, x) # {}
      /\ SlotsOf(resources, x) \subseteq BusySlots(resources)
      /\ releaseResult(resources, x, clock).outcome = "resolved"

\* ------------------------------------------------------------------------
\* C33. No leaked reservation: a slot that an acquire marked Reserved
\* becomes Occupied-Busy or Empty when the create callback of that acquire
\* completes, under any interleaving with release and runEviction; no slot
\* stays Reserved once all the creations in flight have completed.
\* ------------------------------------------------------------------------
C33_NoLeakedReservation ==
  InFlight = {} => ReservedSlots(resources) = {}


\* ------------------------------------------------------------------------
\* C34. Destroyed and held are disjoint: in every reachable state no
\* resource is both passed to destroy and in the hands of a caller; destroy
\* is invoked only on resources that are not checked out at the time of the
\* sweep, at most once per resource, and no acquire returns a resource on
\* which destroy was invoked.
\* ------------------------------------------------------------------------
C34_Disjoint ==
  \A x \in Values :
    /\ ~(destroyCalls[x] > 0 /\ held[x] > 0)
    /\ destroyCalls[x] <= 1
    /\ destroyCalls[x] > 0 => SlotsOf(resources, x) = {}

C34_DestroyStep ==
  \A x \in Values :
    destroyCalls'[x] > destroyCalls[x] =>
      /\ held[x] = 0
      /\ destroyCalls[x] = 0
      /\ SlotsOf(resources, x) \subseteq FreeSlots(resources)
      /\ SlotsOf(resources, x) # {}

C34_ReturnStep ==
  \A x \in Values :
    held'[x] > held[x] => destroyCalls[x] = 0 /\ destroyCalls'[x] = 0

C34_DestroyedHeldDisjoint ==
  /\ [] C34_Disjoint
  /\ [][C34_DestroyStep /\ C34_ReturnStep]_vars

\* a sweep passed the returned resource 1 to destroy while resource 2 is
\* checked out and stays in its slot, now at index 0
C34_Witness ==
  /\ destroyCalls[1] = 1
  /\ held[1] = 0
  /\ held[2] = 1
  /\ destroyCalls[2] = 0
  /\ SlotsOf(resources, 2) = {0}
  /\ 0 \in BusySlots(resources)


\* ------------------------------------------------------------------------
\* C35. Live resources bounded by maxCount: when maxCount is set, in every
\* reachable state, under any interleaving of acquire, release, completions
\* of creations and runEviction, the number of resources that create has
\* produced and that have not been passed to destroy is at most maxCount
\* (the creations in flight included).
\* ------------------------------------------------------------------------
C35_LiveBounded ==
  maxCount # NoMaxCount =>
    Cardinality(CreatedNotEvicted) + Cardinality(InFlight) <= maxCount

\* maxCount 2 is reached by two live resources, one of which was written
\* over by a late completion after a sweep and is in no slot, while the
\* marker of that completion still occupies index 0; the pool is full
C35_Witness ==
  /\ maxCount = 2
  /\ Cardinality(CreatedNotEvicted) = 2
  /\ InFlight = {}
  /\ settled[2] = "resolved" /\ destroyCalls[2] = 0
  /\ SlotsOf(resources, 2) = {}
  /\ ReservedSlots(resources) = {0}
  /\ ~isRoomForResource(maxCount, resources)

====
